---------------------------- MODULE Spec2Model ----------------------------
(***************************************************************************)
(* Content-aware search and relevance ranking of MCP-GoogleDrive:          *)
(* DriveService.searchFiles and the filter it builds,                      *)
(* DriveService.searchFilesWithContentAnalysis (rankSearch), the text      *)
(* extractors of spreadsheets and presentations it calls,                  *)
(* calculateRelevanceScore, generateSummary and the g_drive_search_files   *)
(* tool handler.                                                           *)
(*                                                                         *)
(* A JavaScript string is a sequence of one-character strings.  A          *)
(* character outside ASCII is written as one named token of the sequence,  *)
(* and so is a fixed message of generateSummary and a keyword run of the   *)
(* store's filter; the labels of the extractors, which are scored, are     *)
(* written character by character.                                         *)
(***************************************************************************)
EXTENDS Integers, Sequences, FiniteSets, TLC

\* ------------------------------------------------------------------ bounds

\* Number of files the store holds.
NumFiles == 4
\* The caller-supplied maxResults of rankSearch ranges over 0..MaxRequested.
MaxRequested == 1
\* A caller runs the same rankSearch request at most MaxRuns times.
MaxRuns == 2
\* The store of the page-size runs holds up to CapFiles files, and their
\* maxResults ranges over -1..CapRequested.
CapFiles == 28
CapRequested == 22
\* The texts summarised on their own: every text of up to MaxTextLen
\* characters, and those around a filler of about ShortContentLimit characters.
MaxTextLen == 3
\* The queries a candidate is scored for on its own have up to MaxQueryLen
\* characters.
MaxQueryLen == 3
\* The queries a filter is built for have up to MaxFilterLen characters.
MaxFilterLen == 4
\* The long texts summarised on their own hold up to MaxSentences sentences
\* after an optional run of short ones.
MaxSentences == 4
\* The documents extracted on their own have up to MaxTabs tabs.
MaxTabs == 3
\* The spreadsheets extracted on their own have up to MaxSheets sheets, and
\* the sheet whose cells vary has MaxGridRows rows of cells.
MaxSheets == 2
MaxGridRows == 2

\* -------------------------------------------------------------- characters

\* Characters \s of a JavaScript regular expression matches (those modelled).
Whitespace == {" ", "\n", "\t"}

\* Full-width sentence punctuation, one token each.
JpPeriod == "U+3002"
JpExclamation == "U+FF01"
JpQuestion == "U+FF1F"

\* The class [。！？\.\!\?] that generateSummary splits sentences on.
SentenceDelims == {JpPeriod, JpExclamation, JpQuestion, ".", "!", "?"}

Uppers ==
  <<"A","B","C","D","E","F","G","H","I","J","K","L","M",
    "N","O","P","Q","R","S","T","U","V","W","X","Y","Z">>

Lowers ==
  <<"a","b","c","d","e","f","g","h","i","j","k","l","m",
    "n","o","p","q","r","s","t","u","v","w","x","y","z">>

\* String.prototype.toLowerCase on one character.
LowerChar(c) ==
  IF \E i \in 1..Len(Uppers) : Uppers[i] = c
  THEN Lowers[CHOOSE i \in 1..Len(Uppers) : Uppers[i] = c]
  ELSE c

\* String.prototype.toLowerCase.
toLowerCase(s) == [i \in 1..Len(s) |-> LowerChar(s[i])]

\* ----------------------------------------------------------------- strings

Min(a, b) == IF a <= b THEN a ELSE b

\* s.substring(from - 1): the characters of s from position from (1-based) on.
Drop(s, from) == IF from > Len(s) THEN <<>> ELSE SubSeq(s, from, Len(s))

\* s.substring(0, n).
Take(s, n) == SubSeq(s, 1, Min(n, Len(s)))

\* Whether literal p occurs in s at position i (1-based).
OccursAt(p, s, i) ==
  /\ i + Len(p) - 1 <= Len(s)
  /\ \A k \in 1..Len(p) : s[i + k - 1] = p[k]

\* String.prototype.includes: p is a literal substring of s.
includes(s, p) == \E i \in 1..(Len(s) + 1) : OccursAt(p, s, i)

\* Length of the maximal run of characters of Class that starts s.
RunLength(s, Class) ==
  IF \A i \in 1..Len(s) : s[i] \in Class THEN Len(s)
  ELSE (CHOOSE i \in 1..Len(s) :
          s[i] \notin Class /\ \A j \in 1..(i - 1) : s[j] \in Class) - 1

\* Length of the maximal run of characters of Class that ends s.
TrailingRunLength(s, Class) ==
  IF \A i \in 1..Len(s) : s[i] \in Class THEN Len(s)
  ELSE Len(s) - (CHOOSE i \in 1..Len(s) :
                   s[i] \notin Class /\ \A j \in (i + 1)..Len(s) : s[j] \in Class)

\* String.prototype.trim: leading and trailing whitespace removed.
trim(s) ==
  LET lead == RunLength(s, Whitespace) IN
  IF lead = Len(s) THEN <<>>
  ELSE SubSeq(s, lead + 1, Len(s) - TrailingRunLength(s, Whitespace))

\* String.prototype.repeat: n copies of block, one after the other.
Repeat(block, n) ==
  [i \in 1..(n * Len(block)) |-> block[((i - 1) % Len(block)) + 1]]

\* The k-th smallest element of a finite set of integers.
KthSmallest(S, k) == CHOOSE x \in S : Cardinality({y \in S : y < x}) = k - 1

\* String.prototype.split(/[Class]+/): the pieces of s between the maximal
\* runs of characters of Class, in order; a run that starts or ends s leaves
\* an empty piece there, and the empty string splits to one empty piece.
split(s, Class) ==
  LET n == Len(s)
      starts == {i \in 1..n : s[i] \notin Class /\ (i = 1 \/ s[i - 1] \in Class)}
      PieceEnd(i) ==
        IF \A j \in i..n : s[j] \notin Class THEN n
        ELSE (CHOOSE j \in i..n :
                s[j] \in Class /\ \A k \in i..(j - 1) : s[k] \notin Class) - 1
      PieceAt(i) == SubSeq(s, i, PieceEnd(i))
      inner == [k \in 1..Cardinality(starts) |-> PieceAt(KthSmallest(starts, k))]
  IN IF n = 0 THEN <<(<<>>)>>
     ELSE (IF s[1] \in Class THEN <<(<<>>)>> ELSE <<>>)
          \o inner
          \o (IF s[n] \in Class THEN <<(<<>>)>> ELSE <<>>)

\* Array.prototype.join.
RECURSIVE join(_, _)
join(parts, sep) ==
  IF parts = <<>> THEN <<>>
  ELSE IF Len(parts) = 1 THEN parts[1]
  ELSE parts[1] \o sep \o join(Tail(parts), sep)

\* An insertion that puts position j before the positions of equal key.
RECURSIVE InsertUnstable(_, _, _)
InsertUnstable(keys, sorted, j) ==
  IF sorted = <<>> THEN <<j>>
  ELSE IF keys[Head(sorted)] > keys[j]
       THEN <<Head(sorted)>> \o InsertUnstable(keys, Tail(sorted), j)
       ELSE <<j>> \o sorted

\* Array.prototype.sort with a comparator that subtracts integer keys, as the
\* order it gives the positions of keys.  The sort is stable (ECMAScript
\* 2019): equal keys keep their input order.  InsertByKey puts position j
\* behind every position whose key is not smaller than keys[j].
RECURSIVE InsertByKey(_, _, _)
InsertByKey(keys, sorted, j) ==
  IF sorted = <<>> THEN <<j>>
  ELSE IF keys[Head(sorted)] >= keys[j]
       THEN <<Head(sorted)>> \o InsertByKey(keys, Tail(sorted), j)
       ELSE <<j>> \o sorted

RECURSIVE SortFrom(_, _, _)
SortFrom(keys, sorted, j) ==
  IF j > Len(keys) THEN sorted
  ELSE SortFrom(keys, InsertByKey(keys, sorted, j), j + 1)

\* sort((a, b) => b.key - a.key): the positions of keys, largest key first.
SortDescending(keys) == SortFrom(keys, <<>>, 1)

\* sort((a, b) => a.key - b.key): the positions of keys, smallest key first.
SortAscending(keys) == SortDescending([i \in 1..Len(keys) |-> 0 - keys[i]])

\* ------------------------------------------------------------------ scorer

\* Points of calculateRelevanceScore.
FileNameMatchPoints == 10
ContentMatchPoints == 2
ExactMatchBonus == 20

\* Pattern characters of new RegExp(term, 'g').  The queries of the model are
\* written with letters, digits, whitespace, "." and "(": "." matches any
\* character but a line terminator, and "(" opens a group that nothing closes,
\* so the RegExp constructor throws a SyntaxError.
RegexWildcard == "."
RegexGroupOpen == "("
LineTerminators == {"\n"}

\* new RegExp(term, 'g') throws.
RegExpThrows(term) == \E k \in 1..Len(term) : term[k] = RegexGroupOpen

\* The pattern matches s at position i (1-based).
MatchesAt(pattern, s, i) ==
  /\ i + Len(pattern) - 1 <= Len(s)
  /\ \A k \in 1..Len(pattern) :
       IF pattern[k] = RegexWildcard
       THEN s[i + k - 1] \notin LineTerminators
       ELSE s[i + k - 1] = pattern[k]

\* (s.match(new RegExp(pattern, 'g')) || []).length: the matches found from
\* left to right, each search resuming where the last match ended (one
\* character further after an empty match).  The recursion is as deep as s
\* is long; the texts scored have at most some tens of characters.
RECURSIVE MatchCountFrom(_, _, _)
MatchCountFrom(pattern, s, i) ==
  IF i > Len(s) + 1 THEN 0
  ELSE IF MatchesAt(pattern, s, i)
       THEN 1 + MatchCountFrom(pattern, s,
                               i + (IF Len(pattern) = 0 THEN 1 ELSE Len(pattern)))
       ELSE MatchCountFrom(pattern, s, i + 1)

MatchCount(pattern, s) == MatchCountFrom(pattern, s, 1)

\* query.toLowerCase().split(/\s+/).
QueryTerms(query) == split(toLowerCase(query), Whitespace)

\* A bonus given when the file name contains the term.
TermScoreBonusOnContain(term, query, fileNameLower, contentLower) ==
    (IF includes(fileNameLower, term) THEN FileNameMatchPoints ELSE 0)
  + MatchCount(term, contentLower) * ContentMatchPoints
  + (IF includes(fileNameLower, term) \/ includes(contentLower, toLowerCase(query))
     THEN ExactMatchBonus ELSE 0)

\* A bonus given for the file name only.
TermScoreNameBonusOnly(term, query, fileNameLower, contentLower) ==
    (IF includes(fileNameLower, term) THEN FileNameMatchPoints ELSE 0)
  + MatchCount(term, contentLower) * ContentMatchPoints
  + (IF fileNameLower = term THEN ExactMatchBonus ELSE 0)

\* What one term adds to the score (the body of the forEach).
TermScore(term, query, fileNameLower, contentLower) ==
    (IF includes(fileNameLower, term) THEN FileNameMatchPoints ELSE 0)
  + MatchCount(term, contentLower) * ContentMatchPoints
  + (IF fileNameLower = term \/ includes(contentLower, toLowerCase(query))
     THEN ExactMatchBonus ELSE 0)

RECURSIVE SumTerms(_, _, _, _)
SumTerms(terms, query, fileNameLower, contentLower) ==
  IF terms = <<>> THEN 0
  ELSE TermScore(Head(terms), query, fileNameLower, contentLower)
       + SumTerms(Tail(terms), query, fileNameLower, contentLower)

\* calculateRelevanceScore: the score, or the exception of the first term the
\* RegExp constructor rejects.
calculateRelevanceScore(query, fileName, content) ==
  LET terms == QueryTerms(query) IN
  IF \E k \in 1..Len(terms) : RegExpThrows(terms[k])
  THEN [threw |-> TRUE, value |-> 0]
  ELSE [threw |-> FALSE,
        value |-> SumTerms(terms, query, toLowerCase(fileName), toLowerCase(content))]

\* -------------------------------------------------------------- summarizer

\* Thresholds of generateSummary.
ShortContentLimit == 300
MinSentenceLength == 10
TopSentences == 3
FallbackLength == 200
MaxSummaryLength == 400

\* The fixed messages of generateSummary, which follow the file name.
EmptyContentNotice == <<"[no-naiyou-wa-kara-desu]">>
NoReadableTextNotice == <<"[niwa-yomitori-kanou-na-text-ga-fukumarete-imasen]">>
Ellipsis == <<".", ".", ".">>

\* Character classes of calculateSentenceImportance.
Digits == {"0", "1", "2", "3", "4", "5", "6", "7", "8", "9"}
UpperLetters == {Uppers[i] : i \in 1..Len(Uppers)}
LowerLetters == {Lowers[i] : i \in 1..Len(Lowers)}
JpComma == "U+3001"
JpColon == "U+FF1A"
JpSemicolon == "U+FF1B"
StructurePunctuation == {JpComma, JpPeriod, JpColon, JpSemicolon}
EmphasisMarks == {JpQuestion, JpExclamation, "?", "!"}
Brackets == {"U+FF08", "U+FF09", "(", ")"}
ColonsAndArrows == {JpColon, "U+2192", "U+2190", "U+2191", "U+2193"}
ClauseMarkers ==
  {"U+304C", "U+3067", "U+306B", "U+3092", "U+306F", "U+3082", "U+3068",
   "U+304B", "U+3089"}

\* Number of characters of s in Class: (s.match(/[Class]/g) || []).length.
CountIn(s, Class) == Cardinality({i \in 1..Len(s) : s[i] \in Class})

\* (s.match(/[A-Z][a-z]+/g) || []).length: an upper-case letter followed by a
\* run of lower-case letters.  No match holds the start of another, so the
\* matches are counted by their first two characters.
CapitalWords(s) ==
  Cardinality({i \in 1..(Len(s) - 1) : s[i] \in UpperLetters /\ s[i + 1] \in LowerLetters})

\* calculateSentenceImportance; index counts from 0.
calculateSentenceImportance(sentence, index, totalSentences) ==
  LET length == Len(sentence) IN
    (IF length >= 20 /\ length <= 150 THEN 10
     ELSE IF length >= 10 /\ length <= 200 THEN 5 ELSE 0)
  + (IF index = 0 \/ index = totalSentences - 1 THEN 15
     ELSE IF index * 10 < totalSentences * 3 THEN 10 ELSE 0)
  + (IF CountIn(sentence, Digits) > 0 THEN 3 ELSE 0)
  + Min(CapitalWords(sentence) * 2, 8)
  + (IF CountIn(sentence, StructurePunctuation) >= 2 THEN 3 ELSE 0)
  + (IF CountIn(sentence, EmphasisMarks) > 0 THEN 5 ELSE 0)
  + (IF CountIn(sentence, Brackets) > 0 THEN 2 ELSE 0)
  + (IF CountIn(sentence, ColonsAndArrows) > 0 THEN 3 ELSE 0)
  + (IF CountIn(sentence, ClauseMarkers) >= 3 THEN 2 ELSE 0)
  + (IF CountIn(sentence, UpperLetters \cup LowerLetters) > 0
        /\ CountIn(sentence, Digits) > 0 THEN 3 ELSE 0)

\* content.split(/[。！？\.\!\?]+/).filter(s => s.trim().length > 0).
Sentences(content) ==
  SelectSeq(split(content, SentenceDelims), LAMBDA s : trim(s) # <<>>)

\* A selection left in the order of the importances.
ImportantSentencesByScore(sentences) ==
  LET n == Len(sentences)
      kept == SelectSeq([i \in 1..n |-> i],
                        LAMBDA i : Len(trim(sentences[i])) > MinSentenceLength)
      byScore == SortDescending(
                   [k \in 1..Len(kept) |->
                      calculateSentenceImportance(sentences[kept[k]], kept[k] - 1, n)])
  IN [k \in 1..Min(TopSentences, Len(kept)) |-> kept[byScore[k]]]

\* The sentences generateSummary selects, as positions of sentences, in the
\* order of the text: those longer than MinSentenceLength once trimmed, the
\* TopSentences highest importances of them, put back in their order.
ImportantSentences(sentences) ==
  LET n == Len(sentences)
      kept == SelectSeq([i \in 1..n |-> i],
                        LAMBDA i : Len(trim(sentences[i])) > MinSentenceLength)
      byScore == SortDescending(
                   [k \in 1..Len(kept) |->
                      calculateSentenceImportance(sentences[kept[k]], kept[k] - 1, n)])
      top == [k \in 1..Min(TopSentences, Len(kept)) |-> kept[byScore[k]]]
      byIndex == SortAscending(top)
  IN [k \in 1..Len(top) |-> top[byIndex[k]]]

\* A summary cut as soon as it reaches MaxSummaryLength.
JoinedSummaryCutAtLimit(sentences, selected) ==
  LET summary == join([k \in 1..Len(selected) |-> trim(sentences[selected[k]])],
                      <<JpPeriod>>) \o <<JpPeriod>>
  IN IF Len(summary) >= MaxSummaryLength
     THEN Take(summary, MaxSummaryLength) \o Ellipsis
     ELSE summary

\* The summary of the selected sentences, cut to MaxSummaryLength.
JoinedSummary(sentences, selected) ==
  LET summary == join([k \in 1..Len(selected) |-> trim(sentences[selected[k]])],
                      <<JpPeriod>>) \o <<JpPeriod>>
  IN IF Len(summary) > MaxSummaryLength
     THEN Take(summary, MaxSummaryLength) \o Ellipsis
     ELSE summary

\* A short content returned as it is, untrimmed.
ShortSummaryUntrimmed(content) == content

\* The summary of a short content: content.trim().
ShortSummary(content) == trim(content)

\* A generateSummary that takes only the empty string for empty content.
generateSummaryFalsyOnly(content, fileName) ==
  IF content = <<>>
  THEN fileName \o EmptyContentNotice
  ELSE LET sentences == Sentences(content) IN
       IF sentences = <<>> THEN fileName \o NoReadableTextNotice
       ELSE IF Len(content) <= ShortContentLimit THEN ShortSummary(content)
       ELSE LET selected == ImportantSentences(sentences) IN
            IF selected = <<>> THEN Take(content, FallbackLength) \o Ellipsis
            ELSE JoinedSummary(sentences, selected)

\* generateSummary.
generateSummary(content, fileName) ==
  IF content = <<>> \/ trim(content) = <<>>
  THEN fileName \o EmptyContentNotice
  ELSE LET sentences == Sentences(content) IN
       IF sentences = <<>> THEN fileName \o NoReadableTextNotice
       ELSE IF Len(content) <= ShortContentLimit THEN ShortSummary(content)
       ELSE LET selected == ImportantSentences(sentences) IN
            IF selected = <<>> THEN Take(content, FallbackLength) \o Ellipsis
            ELSE JoinedSummary(sentences, selected)

\* -------------------------------------------------------------- extractors

\* The labels and notices of the extractors, character by character.
\* "タイトル: "
TitleLabel == <<"U+30BF", "U+30A4", "U+30C8", "U+30EB", ":", " ">>
\* "===== シート: " and, after the sheet's name, " =====\n\n"
SheetLabel ==
  <<"=", "=", "=", "=", "=", " ", "U+30B7", "U+30FC", "U+30C8", ":", " ">>
SheetLabelEnd == <<" ", "=", "=", "=", "=", "=", "\n", "\n">>
\* "スプレッドシートにデータが存在しません。"
NoSheetDataNotice ==
  <<"U+30B9", "U+30D7", "U+30EC", "U+30C3", "U+30C9", "U+30B7", "U+30FC",
    "U+30C8", "U+306B", "U+30C7", "U+30FC", "U+30BF", "U+304C", "U+5B58",
    "U+5728", "U+3057", "U+307E", "U+305B", "U+3093", "U+3002">>
CellSeparator == <<" ", "|", " ">>
\* "プレゼンテーションタイトル: "
DeckTitleLabel ==
  <<"U+30D7", "U+30EC", "U+30BC", "U+30F3", "U+30C6", "U+30FC", "U+30B7",
    "U+30E7", "U+30F3", "U+30BF", "U+30A4", "U+30C8", "U+30EB", ":", " ">>
\* "スライド "
SlideLabel == <<"U+30B9", "U+30E9", "U+30A4", "U+30C9", " ">>
\* "スライドが存在しません。", the notice of index.ts's getPresentationText.
NoSlidesNotice ==
  <<"U+30B9", "U+30E9", "U+30A4", "U+30C9", "U+304C", "U+5B58", "U+5728",
    "U+3057", "U+307E", "U+305B", "U+3093", "U+3002">>

DigitChars == <<"0", "1", "2", "3", "4", "5", "6", "7", "8", "9">>

\* A non-negative number in a template literal: its decimal digits.
RECURSIVE DecimalDigits(_)
DecimalDigits(n) ==
  IF n < 10 THEN <<DigitChars[n + 1]>>
  ELSE DecimalDigits(n \div 10) \o <<DigitChars[(n % 10) + 1]>>

\* The rows of a sheet as text: the cells of a row joined by " | ", one line
\* a row; an empty row and a row whose text is blank are skipped.
RECURSIVE RowsText(_)
RowsText(rows) ==
  IF rows = <<>> THEN <<>>
  ELSE LET row == Head(rows)
           rowText == join(row, CellSeparator)
       IN (IF row # <<>> /\ trim(rowText) # <<>> THEN rowText \o <<"\n">> ELSE <<>>)
          \o RowsText(Tail(rows))

\* The sheets as text: a sheet without values is skipped; a header line, a
\* blank line, the rows and two line ends otherwise.
RECURSIVE SheetsText(_)
SheetsText(sheets) ==
  IF sheets = <<>> THEN <<>>
  ELSE LET sheet == Head(sheets) IN
       (IF sheet.values = <<>> THEN <<>>
        ELSE SheetLabel \o sheet.name \o SheetLabelEnd
             \o RowsText(sheet.values) \o <<"\n", "\n">>)
       \o SheetsText(Tail(sheets))

\* s.replace(/\n\n\n+/g, "\n\n"): of a run of line ends, the first two stay.
CollapseBlankLines(s) ==
  LET keep == SelectSeq([i \in 1..Len(s) |-> i],
                        LAMBDA i : ~(/\ i >= 3
                                     /\ s[i] = "\n"
                                     /\ s[i - 1] = "\n"
                                     /\ s[i - 2] = "\n"))
  IN [k \in 1..Len(keep) |-> s[keep[k]]]

\* A spreadsheet text without the title line.
getSpreadsheetTextUntitled(book) ==
  IF book.sheets = <<>> THEN NoSheetDataNotice
  ELSE CollapseBlankLines(SheetsText(book.sheets))

\* SheetsService.getSpreadsheetText, given the spreadsheet's title (empty when
\* the metadata has none) and the values of its sheets.
getSpreadsheetText(book) ==
  LET titleLine == IF book.title # <<>>
                   THEN TitleLabel \o book.title \o <<"\n", "\n">>
                   ELSE <<>>
  IN IF book.sheets = <<>> THEN titleLine \o NoSheetDataNotice
     ELSE CollapseBlankLines(titleLine \o SheetsText(book.sheets))

\* The slides as text: "スライド n:", then the contents of the text runs of the
\* slide's shapes one after the other, then two line ends.
RECURSIVE SlidesText(_, _)
SlidesText(slides, index) ==
  IF index > Len(slides) THEN <<>>
  ELSE SlideLabel \o DecimalDigits(index) \o <<":", "\n">>
       \o join(slides[index], <<>>) \o <<"\n", "\n">>
       \o SlidesText(slides, index + 1)

\* SlidesService.getPresentationText, given the presentation's title (empty
\* when it has none), whether the slides field is present, and the text runs
\* of each slide.
getPresentationText(deck) ==
  (IF deck.title # <<>> THEN DeckTitleLabel \o deck.title \o <<"\n", "\n">> ELSE <<>>)
  \o (IF deck.hasSlides THEN SlidesText(deck.slides, 1) ELSE <<>>)

\* ------------------------------------------------------ document extractor

\* The labels and notices of DocsService, character by character.
TabLabel == <<"U+30BF", "U+30D6", ":", " ">>

TabIdLabel == <<" ", "(", "I", "D", ":", " ">>

NoTabsNotice ==
  <<"U+30C9", "U+30AD", "U+30E5", "U+30E1", "U+30F3", "U+30C8", "U+306B",
    "U+30BF", "U+30D6", "U+304C", "U+5B58", "U+5728", "U+3057", "U+307E",
    "U+305B", "U+3093", "U+3002">>

NoTabContentNotice ==
  <<"U+6307", "U+5B9A", "U+3055", "U+308C", "U+305F", "U+30BF", "U+30D6",
    "U+306E", "U+5185", "U+5BB9", "U+304C", "U+5B58", "U+5728", "U+3057",
    "U+307E", "U+305B", "U+3093", "U+3002">>

TabErrorLabel ==
  <<"U+30A8", "U+30E9", "U+30FC", ":", " ", "U+3053", "U+306E", "U+30BF",
    "U+30D6", "U+306E", "U+30C6", "U+30AD", "U+30B9", "U+30C8", "U+53D6",
    "U+5F97", "U+306B", "U+5931", "U+6557", "U+3057", "U+307E", "U+3057",
    "U+305F", " ", "(">>

UntitledTab == <<"U+7121", "U+984C", "U+306E", "U+30BF", "U+30D6">>

DefaultTabTitle ==
  <<"U+30E1", "U+30A4", "U+30F3", "U+30C9", "U+30AD", "U+30E5", "U+30E1",
    "U+30F3", "U+30C8">>

Bullet == <<"U+2022", " ">>

\* A document of the store is a record: title; parent, which gives each tab
\* (numbered in the order of the document) its parent tab, 0 for a root tab;
\* props, whether the tab carries tabProperties; titles, the tabs' titles;
\* body, the tabs' bodies.  A tab is parent[i] < i, so the child tabs of a tab
\* are in the order of their numbers.

\* tabProperties.tabId of tab i.
TabId(i) == <<"t", ".">> \o DecimalDigits(i)

\* childTabs of tab p (document.tabs for p = 0), in their order.
ChildTabs(tree, p) ==
  SelectSeq([i \in 1..Len(tree.parent) |-> i], LAMBDA i : tree.parent[i] = p)

\* The TabInfo extractTabInfo builds for tab at level, tabList being the list
\* built so far by this call.
TabInfoOf(tree, tab, level, tabList) ==
  [tabId |-> TabId(tab),
   title |-> IF tree.titles[tab] # <<>> THEN tree.titles[tab] ELSE UntitledTab,
   level |-> level,
   hasChildTabs |-> ChildTabs(tree, tab) # <<>>,
   isDefaultTab |-> level = 0 /\ tabList = <<>>]

\* A listing that takes the tabs of a level before their child tabs.
RECURSIVE extractTabInfoSiblingsFirst(_, _, _, _)
extractTabInfoSiblingsFirst(tree, tabs, level, tabList) ==
  IF tabs = <<>> THEN tabList
  ELSE LET tab == Head(tabs)
           withTab == Append(tabList, TabInfoOf(tree, tab, level, tabList))
       IN extractTabInfoSiblingsFirst(tree, Tail(tabs), level, withTab)
          \o extractTabInfoSiblingsFirst(tree, ChildTabs(tree, tab), level + 1, <<>>)

\* extractTabInfo(tabs, level), tabList being what the loop has built before
\* the first of tabs: a tab with tabProperties is pushed, then the list of
\* its child tabs at level + 1; a tab without is passed over with its child
\* tabs.
RECURSIVE extractTabInfo(_, _, _, _)
extractTabInfo(tree, tabs, level, tabList) ==
  IF tabs = <<>> THEN tabList
  ELSE LET tab == Head(tabs)
           withTab == Append(tabList, TabInfoOf(tree, tab, level, tabList))
           withChildTabs ==
             IF ChildTabs(tree, tab) # <<>>
             THEN withTab \o extractTabInfo(tree, ChildTabs(tree, tab), level + 1, <<>>)
             ELSE withTab
       IN extractTabInfo(tree, Tail(tabs), level,
                         IF tree.props[tab] THEN withChildTabs ELSE tabList)

\* DocsService.getDocumentTabs.
getDocumentTabs(tree) ==
  IF Len(tree.parent) = 0 THEN <<>>
  ELSE extractTabInfo(tree, ChildTabs(tree, 0), 0, <<>>)

\* The elements of a tab body: a paragraph (with the contents of its text
\* runs put together), which may be a heading and may carry a bullet, or a
\* table (the text runs of each cell).
Paragraph(text) ==
  [paragraph |-> TRUE, table |-> FALSE, heading |-> FALSE, bullet |-> FALSE,
   nestingLevel |-> 0, text |-> text, rows |-> <<>>]

Heading(text) == [Paragraph(text) EXCEPT !.heading = TRUE]

ListItem(nestingLevel, text) ==
  [Paragraph(text) EXCEPT !.bullet = TRUE, !.nestingLevel = nestingLevel]

Table(rows) ==
  [paragraph |-> FALSE, table |-> TRUE, heading |-> FALSE, bullet |-> FALSE,
   nestingLevel |-> 0, text |-> <<>>, rows |-> rows]

\* The text of a table row: the trimmed cells, " | " before a cell when the
\* row text is not empty.
RECURSIVE TableRowText(_, _)
TableRowText(cells, rowText) ==
  IF cells = <<>> THEN rowText
  ELSE TableRowText(Tail(cells),
                    rowText \o (IF rowText # <<>> THEN CellSeparator ELSE <<>>)
                            \o trim(Head(cells)))

\* The rows of a table: a line for each row whose text is not empty.
RECURSIVE TableRowsText(_)
TableRowsText(rows) ==
  IF rows = <<>> THEN <<>>
  ELSE LET rowText == TableRowText(Head(rows), <<>>) IN
       (IF rowText # <<>> THEN rowText \o <<"\n">> ELSE <<>>)
       \o TableRowsText(Tail(rows))

\* What the loop of getDocumentTabText adds for one element: the branches
\* are tried in the order of the code, the paragraph first, then the table,
\* then the paragraph with a bullet.
ElementText(element) ==
  IF element.paragraph
  THEN (IF element.heading THEN <<"\n">> ELSE <<>>)
       \o element.text
       \o (IF element.heading THEN <<"\n">> ELSE <<>>)
  ELSE IF element.table
  THEN <<"\n">> \o TableRowsText(element.rows) \o <<"\n">>
  ELSE IF element.paragraph /\ element.bullet
  THEN Repeat(<<" ", " ">>, element.nestingLevel) \o Bullet \o element.text
  ELSE <<>>

RECURSIVE BodyText(_)
BodyText(content) ==
  IF content = <<>> THEN <<>>
  ELSE ElementText(Head(content)) \o BodyText(Tail(content))

\* DocsService.getDocumentTabText for the tab numbered tab, which
\* getDocumentTabs listed from the same document, so that findTabById finds
\* it.
getDocumentTabText(tree, tab) ==
  LET titleLine == IF tree.title # <<>>
                   THEN TitleLabel \o tree.title \o <<"\n", "\n">>
                   ELSE <<>>
      header == IF tree.props[tab]
                THEN TabLabel
                     \o (IF tree.titles[tab] # <<>> THEN tree.titles[tab]
                         ELSE UntitledTab)
                     \o TabIdLabel \o TabId(tab) \o <<")", "\n", "\n">>
                ELSE <<>>
  IN IF Len(tree.parent) = 0 THEN titleLine \o NoTabsNotice
     ELSE IF ~tree.body[tab].hasBody
     THEN titleLine \o header \o NoTabContentNotice
     ELSE CollapseBlankLines(titleLine \o header \o BodyText(tree.body[tab].content))

\* The message of the error a failed fetch of a tab's text throws.
FetchErrorMessage == <<"q", "u", "o", "t", "a">>

\* The text the catch block of getDocText gives a tab.
TabErrorText == TabErrorLabel \o FetchErrorMessage \o <<")">>

\* The tab getDocText returns for a document without tabs; it has no text.
DefaultTab ==
  [tabId |-> <<"d", "e", "f", "a", "u", "l", "t">>, title |-> DefaultTabTitle,
   level |-> 0, hasChildTabs |-> FALSE, isDefaultTab |-> TRUE,
   hasText |-> FALSE, text |-> <<>>]

\* The entry the loop of getDocText pushes for the k-th listed tab, the
\* fetch of the texts of the tabs of fails throwing.
TabWithText(tree, fails, info) ==
  LET tab == CHOOSE i \in 1..Len(tree.parent) : TabId(i) = info.tabId IN
  [tabId |-> info.tabId, title |-> info.title, level |-> info.level,
   hasChildTabs |-> info.hasChildTabs, isDefaultTab |-> info.isDefaultTab,
   hasText |-> TRUE,
   text |-> IF tab \in fails THEN TabErrorText ELSE getDocumentTabText(tree, tab)]

\* docContent.tabs.map(tab => tab.text || '').join(' ').
JoinTabTexts(tabs) ==
  join([k \in 1..Len(tabs) |-> IF tabs[k].hasText THEN tabs[k].text ELSE <<>>],
       <<" ">>)

\* --------------------------------------------------- spreadsheet extractor

\* The rows of the window getSheetDataRange probes, and the columns it
\* probes when the sheet has no gridProperties.columnCount.
ProbeRows == 1000
DefaultColumnCount == 1000

\* The largest element of a non-empty finite set of integers.
SetMax(S) == CHOOSE x \in S : \A y \in S : y <= x

\* getColumnLetter(columnIndex), columnIndex counting from 0.
RECURSIVE getColumnLetter(_)
getColumnLetter(columnIndex) ==
  IF columnIndex < 0 THEN <<>>
  ELSE getColumnLetter((columnIndex \div 26) - 1)
       \o <<Uppers[(columnIndex % 26) + 1]>>

\* The column the store reads from the letters of an A1 range, counting
\* from 1.
RECURSIVE ColumnNumber(_)
ColumnNumber(letters) ==
  IF letters = <<>> THEN 0
  ELSE ColumnNumber(SubSeq(letters, 1, Len(letters) - 1)) * 26
       + (CHOOSE k \in 1..Len(Uppers) : Uppers[k] = letters[Len(letters)])

\* A range sheetTitle!A1:<lastColumn><lastRow>.
RangeTo(sheetTitle, lastColumn, lastRow) ==
  [sheet |-> sheetTitle, lastColumn |-> lastColumn, lastRow |-> lastRow]

\* response.data.values of spreadsheets.values.get for a range anchored at
\* A1: the rows of the range down to the last one that holds a value, each
\* without the empty cells behind its last value (a row without a value is
\* the empty array); undefined, hence [], when the range holds no value.
ApiValues(grid, range) ==
  LET lastColumn == ColumnNumber(range.lastColumn)
      Trimmed(r) ==
        LET row == SubSeq(grid[r], 1, Min(lastColumn, Len(grid[r])))
            held == {c \in 1..Len(row) : row[c] # <<>>}
        IN IF held = {} THEN <<>> ELSE SubSeq(row, 1, SetMax(held))
      rows == {r \in 1..Min(range.lastRow, Len(grid)) : Trimmed(r) # <<>>}
  IN IF rows = {} THEN <<>> ELSE [r \in 1..SetMax(rows) |-> Trimmed(r)]

\* SheetsService.getSheetValues.
getSheetValues(book, range) ==
  LET sheet == book.sheets[CHOOSE i \in 1..Len(book.sheets) :
                             book.sheets[i].title = range.sheet]
  IN ApiValues(sheet.grid, range)

\* SheetsService.getSheetDataRange, for a sheet the spreadsheet holds: the
\* probe of A1:<last column>1000, then the last row that has a cell and the
\* last column that has a cell that is not blank.
getSheetDataRange(book, sheetTitle) ==
  LET sheet == book.sheets[CHOOSE i \in 1..Len(book.sheets) :
                             book.sheets[i].title = sheetTitle]
      maxColumns == IF sheet.columnCount # 0 THEN sheet.columnCount
                    ELSE DefaultColumnCount
      testRange == RangeTo(sheetTitle, getColumnLetter(maxColumns - 1), ProbeRows)
      values == ApiValues(sheet.grid, testRange)
      rowsWithCells == {r \in 1..Len(values) : Len(values[r]) > 0}
      LastDataColumn(row) ==
        SetMax({0} \cup {c \in 1..Len(row) : trim(row[c]) # <<>>})
      maxRow == SetMax({0} \cup rowsWithCells)
      maxCol == SetMax({0} \cup {LastDataColumn(values[r]) : r \in rowsWithCells})
  IN IF values = <<>> THEN RangeTo(sheetTitle, <<"A">>, 1)
     ELSE IF maxRow = 0 \/ maxCol = 0 THEN RangeTo(sheetTitle, <<"A">>, 1)
     ELSE RangeTo(sheetTitle, getColumnLetter(maxCol - 1), maxRow)

\* A property key that is an array index: the decimal digits of an integer,
\* without a sign and without a leading zero.
IsArrayIndex(key) ==
  /\ key # <<>>
  /\ \A k \in 1..Len(key) : key[k] \in Digits
  /\ (Len(key) = 1 \/ key[1] # "0")

\* The integer an array index is written for.
RECURSIVE IndexValue(_)
IndexValue(key) ==
  IF key = <<>> THEN 0
  ELSE IndexValue(SubSeq(key, 1, Len(key) - 1)) * 10
       + ((CHOOSE k \in 1..Len(DigitChars) : DigitChars[k] = key[Len(key)]) - 1)

\* result[key] = values on an object held as its properties in the order
\* they were created: a new key is added at the end, an old one keeps its
\* place.
RecordSet(properties, key, values) ==
  IF \E k \in 1..Len(properties) : properties[k].name = key
  THEN [k \in 1..Len(properties) |->
          IF properties[k].name = key THEN [name |-> key, values |-> values]
          ELSE properties[k]]
  ELSE Append(properties, [name |-> key, values |-> values])

\* Object.entries: the array indices in ascending order, then the other
\* keys in the order they were created.
ObjectEntries(properties) ==
  LET indices == SelectSeq(properties, LAMBDA p : IsArrayIndex(p.name))
      others == SelectSeq(properties, LAMBDA p : ~IsArrayIndex(p.name))
      order == SortAscending([k \in 1..Len(indices) |-> IndexValue(indices[k].name)])
  IN [k \in 1..Len(indices) |-> indices[order[k]]] \o others

\* ------------------------------------------------------------------- store

DocumentMime == "application/vnd.google-apps.document"
SpreadsheetMime == "application/vnd.google-apps.spreadsheet"
PresentationMime == "application/vnd.google-apps.presentation"
PdfMime == "application/pdf"

\* The mimeTypes of the filter searchFiles sends to the store.
SearchedMimeTypes == {DocumentMime, SpreadsheetMime, PresentationMime}

\* The files of the store, most recently modified first, repeated in turn:
\* a document of two tabs, a spreadsheet, a PDF and an empty presentation.
\* text is what the format's extractor returns for the file (for a document,
\* the texts of its tabs).
FileTemplates ==
  << [name |-> <<"P", "l", "a", "n">>, mimeType |-> DocumentMime,
      tabs |-> << <<"a", " ", "p", "l", "a", "n", ".">>, <<"b">> >>],
     [name |-> <<"b">>, mimeType |-> SpreadsheetMime,
      tabs |-> << <<"p", "l", "a", "n", " ", "a", " ", "b">> >>],
     [name |-> <<"p", "l", "a", "n">>, mimeType |-> PdfMime,
      tabs |-> << <<"p", "l", "a", "n">> >>],
     [name |-> <<"P", "l", "a", "n">>, mimeType |-> PresentationMime,
      tabs |-> << <<>> >>] >>

TemplateOf(id) == FileTemplates[((id - 1) % Len(FileTemplates)) + 1]

\* The FileInfo the store lists for file id (drive.files.list, fields).
FileInfo(id) ==
  [id |-> id,
   name |-> TemplateOf(id).name,
   mimeType |-> TemplateOf(id).mimeType,
   modifiedTime |-> 1000 - id,
   webViewLink |-> <<"webViewLink", id>>]

\* The queries of the requests: one term with matches, two terms, a term that
\* matches nothing, and a term the RegExp constructor rejects.
Queries ==
  { <<"p", "l", "a", "n">>, <<"a", " ", "b">>, <<"z">>, <<"(", "a">> }

\* A file of the store is "absent" (the store's name/fullText filter does not
\* match it for the query), "ok", or "broken" (listed, but its content cannot
\* be fetched: deleted or revoked after listing, malformed payload).
FileStatuses == {"absent", "ok", "broken"}

\* ------------------------------------------------------------------- state

VARIABLES
  fileStatus,        \* the store: file id -> status, unchanged by a request
  op,                \* "tool": g_drive_search_files; "rank": rankSearch
  query,             \* the request's query
  maxResults,        \* the request's maxResults
  pc,                \* "start", "listing", "fanout", "done"
  auth,              \* what getAuthClient gave the tool handler
  listCalls,         \* drive.files.list calls issued
  fetchCalls,        \* document/spreadsheet/presentation fetches issued
  requestedPageSize, \* pageSize of the last drive.files.list call
  listOutcome,       \* what the store answered to it
  candidates,        \* searchResults of rankSearch
  taskResult,        \* task position -> its ScoredResult, once completed
  completed,         \* task positions in the order the tasks completed
  response,          \* what the operation gave its caller
  run,               \* how many times the request has been started
  prevResponse,      \* the response of the previous run
  prevFirstDone,     \* the task that completed first in the previous run
  faulted,           \* the file whose content went bad or came back between
                     \* the previous run and this one, 0 if none
  sumContent,        \* generateSummary's content argument
  sumFileName,       \* generateSummary's fileName argument
  sumResult,         \* what generateSummary returned
  sumPc,             \* "idle", "call", "done"
  anQuery,           \* the query of a filter built or a candidate analysed
  anVariant,         \* which searchFiles builds the filter
  anFilter,          \* the q parameter searchFiles built
  anFile,            \* the candidate analysed: its FileInfo and its payload
  anContent,         \* what the candidate's extractor returned
  anScore,           \* what calculateRelevanceScore returned
  anPc,              \* "idle", "filter", "extract", "score", "done"
  docTree,           \* the document the store holds: its tabs and their bodies
  docFails,          \* the tabs whose text cannot be fetched
  docListing,        \* what getDocumentTabs returned
  docResult,         \* result.tabs of getDocText
  docContent,        \* the content rankSearch scores for the document
  docPc,             \* "idle", "tabs", "texts", "join", "done"
  shBook,            \* the spreadsheet the store holds: its sheets and cells
  shRanges,          \* the data range found for each sheet, in list order
  shData,            \* the entries of allSheetsData, as Object.entries gives them
  shText,            \* what getSpreadsheetText returned
  shPc               \* "idle", "data", "text", "done"

requestVars ==
  <<fileStatus, op, query, maxResults, pc, auth, listCalls, fetchCalls,
    requestedPageSize, listOutcome, candidates, taskResult, completed,
    response, run, prevResponse, prevFirstDone, faulted>>

summaryVars == <<sumContent, sumFileName, sumResult, sumPc>>

analysisVars ==
  <<anQuery, anVariant, anFilter, anFile, anContent, anScore, anPc>>

docVars == <<docTree, docFails, docListing, docResult, docContent, docPc>>

sheetVars == <<shBook, shRanges, shData, shText, shPc>>

extractorVars == <<docVars, sheetVars>>

vars == <<requestVars, summaryVars, analysisVars, extractorVars>>

\* ----------------------------------------------------------- searchFiles

\* The default of the maxResults parameter.
DefaultMaxResults == 10
\* The ceiling of the page size.
MaxPageSize == 20

\* Page size without the ceiling.
PageSizeUncapped(requested) == requested

\* pageSize: Math.min(maxResults, 20).
PageSize(requested) == Min(requested, MaxPageSize)

\* The files of the store that the filter of searchFiles matches (one of the
\* three mimeTypes, name or fullText contains the query), ordered by
\* modifiedTime desc.
MatchingFiles(status) ==
  LET n == Cardinality(DOMAIN status)
      ids == SelectSeq([i \in 1..n |-> i],
                       LAMBDA i : /\ status[i] # "absent"
                                  /\ TemplateOf(i).mimeType \in SearchedMimeTypes)
  IN [k \in 1..Len(ids) |-> FileInfo(ids[k])]

\* What drive.files.list can answer: a failure (store unreachable; a pageSize
\* outside the API's range 1..1000 is rejected), or at most pageSize matching
\* files.  An answer with no file may come without the files field.
StoreListOutcomes(status, pageSize) ==
  {[ok |-> FALSE, hasFiles |-> FALSE, files |-> <<>>]}
  \cup (IF pageSize < 1 THEN {}
        ELSE LET files == Take(MatchingFiles(status), pageSize) IN
             {[ok |-> TRUE, hasFiles |-> h, files |-> files] :
                h \in (IF files = <<>> THEN BOOLEAN ELSE {TRUE})})

\* searchFiles with a catch block that returns no file instead of rethrowing.
searchFilesSwallowing(outcome) ==
  [threw |-> FALSE, files |-> IF outcome.hasFiles THEN outcome.files ELSE <<>>]

\* searchFiles, given the store's answer: response.data.files || [], or the
\* store's error rethrown.
searchFiles(outcome) ==
  IF ~outcome.ok THEN [threw |-> TRUE, files |-> <<>>]
  ELSE [threw |-> FALSE, files |-> IF outcome.hasFiles THEN outcome.files ELSE <<>>]

\* mimeTypes.map(type => `mimeType='${type}'`).join(' or ').  A keyword run
\* of the filter is one token; a quote is a character.
mimeTypeQuery ==
  <<"mimeType=", "'", DocumentMime, "'", " or ",
    "mimeType=", "'", SpreadsheetMime, "'", " or ",
    "mimeType=", "'", PresentationMime, "'">>

\* The template literal that builds q around the text to search for.
searchQuery(text) ==
  <<"(">> \o mimeTypeQuery
  \o <<") and (name contains ", "'">> \o text
  \o <<"'", " or fullText contains ", "'">> \o text
  \o <<"'", ") and trashed=false">>

\* query.replace(/\\/g, "\\\\").replace(/'/g, "\\'") of the searchFiles of
\* src/unnamed/part_007.
escapedQuery(text) ==
  join([i \in 1..Len(text) |->
          IF text[i] = "\\" THEN <<"\\", "\\">>
          ELSE IF text[i] = "'" THEN <<"\\", "'">>
          ELSE <<text[i]>>],
       <<>>)

\* The two searchFiles of the repository.
DriveServiceVariant == "services/drive.service.ts"
Part007Variant == "unnamed/part_007"

\* The q parameter searchFiles sends for a query.
FilterOf(variant, text) ==
  IF variant = Part007Variant THEN searchQuery(escapedQuery(text))
  ELSE searchQuery(text)

\* ------------------------------------------------ per-candidate task

\* The type label of the switch on file.mimeType.
TypeLabel(mimeType) ==
  CASE mimeType = DocumentMime -> "Google Document"
    [] mimeType = SpreadsheetMime -> "Google Spreadsheet"
    [] mimeType = PresentationMime -> "Google Slides"
    [] OTHER -> "Unknown"

\* content of the switch on file.mimeType: the document's tab texts joined by
\* a space, the extractor's text of a spreadsheet or presentation, the file
\* name otherwise.
ExtractContent(file) ==
  CASE file.mimeType = DocumentMime -> join(TemplateOf(file.id).tabs, <<" ">>)
    [] file.mimeType \in {SpreadsheetMime, PresentationMime} -> TemplateOf(file.id).tabs[1]
    [] OTHER -> file.name

UnavailableSummary == <<"[file-no-naiyou-wo-shutoku-dekimasen-deshita]">>

\* A catch block that reports the failed candidate as an unscored result.
ErrorResultUnflagged(file) ==
  [id |-> file.id, name |-> file.name, link |-> file.webViewLink,
   type |-> TypeLabel(file.mimeType), modifiedTime |-> file.modifiedTime,
   relevanceScore |-> -1, summary |-> UnavailableSummary]

\* The result of the task's catch block.
ErrorResult(file) ==
  [id |-> file.id, name |-> file.name, link |-> file.webViewLink,
   type |-> "Error", modifiedTime |-> file.modifiedTime,
   relevanceScore |-> 0, summary |-> UnavailableSummary]

\* The async function mapped over searchResults: fetch and extract the
\* content, score it, summarise it; any exception gives ErrorResult.
AnalyzeFile(q, file, status) ==
  IF file.mimeType \in SearchedMimeTypes /\ status = "broken"
  THEN ErrorResult(file)
  ELSE LET content == ExtractContent(file)
           score == calculateRelevanceScore(q, file.name, content)
       IN IF score.threw THEN ErrorResult(file)
          ELSE [id |-> file.id, name |-> file.name, link |-> file.webViewLink,
                type |-> TypeLabel(file.mimeType),
                modifiedTime |-> file.modifiedTime,
                relevanceScore |-> score.value,
                summary |-> generateSummary(content, file.name)]

\* Results gathered in the order the tasks completed.
AnalyzedResultsByCompletion(results, order) ==
  [k \in 1..Len(order) |-> results[order[k]]]

\* Results without the failed candidates.
AnalyzedResultsDroppingErrors(results, order) ==
  SelectSeq([i \in 1..Len(order) |-> results[i]], LAMBDA r : r.type # "Error")

\* analyzedResults: what Promise.all resolves to, the tasks' results in the
\* order of searchResults.
AnalyzedResults(results, order) == [i \in 1..Len(order) |-> results[i]]

\* A sort that is left out.
SortResultsSkipped(analyzed) == analyzed

\* analyzedResults.sort((a, b) => b.relevanceScore - a.relevanceScore).
SortResults(analyzed) ==
  LET byScore == SortDescending([i \in 1..Len(analyzed) |-> analyzed[i].relevanceScore])
  IN [k \in 1..Len(analyzed) |-> analyzed[byScore[k]]]

\* --------------------------------------------------------------- responses

NoResponse ==
  [kind |-> "none", isError |-> FALSE, totalCount |-> 0, results |-> <<>>]

\* The exception searchFilesWithContentAnalysis rethrows.
Thrown ==
  [kind |-> "thrown", isError |-> TRUE, totalCount |-> 0, results |-> <<>>]

\* The object searchFilesWithContentAnalysis returns.
RankedResponse(results) ==
  [kind |-> "ranked", isError |-> FALSE, totalCount |-> Len(results),
   results |-> results]

\* An empty-result return that reports a failure.
EmptyRankedAsError == Thrown

\* The return for searchResults.length === 0.
EmptyRanked ==
  [kind |-> "ranked", isError |-> FALSE, totalCount |-> 0, results |-> <<>>]

\* createSuccessResponse of g_drive_search_files.
createSuccessResponse(files) ==
  [kind |-> "success", isError |-> FALSE, totalCount |-> Len(files),
   results |-> files]

\* createErrorResponse: one text item, isError.
createErrorResponse ==
  [kind |-> "error", isError |-> TRUE, totalCount |-> 0, results |-> <<>>]

\* An auth check that lets every handle pass.
checkAuthNever(authClient) == NoResponse

\* checkAuthAndReturnError: the authentication error for a null handle, null
\* (NoResponse) otherwise.
checkAuthAndReturnError(authClient) ==
  IF authClient = "null"
  THEN [kind |-> "authError", isError |-> TRUE, totalCount |-> 0, results |-> <<>>]
  ELSE NoResponse

\* ----------------------------------------------------------------- actions

EmptyResults == [i \in {} |-> NoResponse]

\* No answer yet to the list call.
NoOutcome == [ok |-> FALSE, hasFiles |-> FALSE, files |-> <<>>, answered |-> FALSE]

Answered(outcome) ==
  [ok |-> outcome.ok, hasFiles |-> outcome.hasFiles, files |-> outcome.files,
   answered |-> TRUE]

\* maxResults of the requests: 0..MaxRequested and the parameter's default.
RequestedValues == (0..MaxRequested) \cup {DefaultMaxResults}

\* A request that has not started, on store status.
RequestInit(status) ==
  /\ fileStatus = status
  /\ pc = "start"
  /\ auth = IF op = "rank" THEN "client" ELSE "unset"
  /\ listCalls = 0
  /\ fetchCalls = 0
  /\ requestedPageSize = 0
  /\ listOutcome = NoOutcome
  /\ candidates = <<>>
  /\ taskResult = EmptyResults
  /\ completed = <<>>
  /\ response = NoResponse
  /\ run = 1
  /\ prevResponse = NoResponse
  /\ prevFirstDone = 0
  /\ faulted = 0

\* No call of generateSummary on its own.
SummaryIdle ==
  /\ sumContent = <<>>
  /\ sumFileName = <<>>
  /\ sumResult = <<>>
  /\ sumPc = "idle"

\* No document and no spreadsheet extracted on its own.
NoTree ==
  [title |-> <<>>, parent |-> <<>>, props |-> <<>>, titles |-> <<>>, body |-> <<>>]

NoBook == [title |-> <<>>, sheets |-> <<>>]

ExtractorsIdle ==
  /\ docTree = NoTree
  /\ docFails = {}
  /\ docListing = <<>>
  /\ docResult = <<>>
  /\ docContent = <<>>
  /\ docPc = "idle"
  /\ shBook = NoBook
  /\ shRanges = <<>>
  /\ shData = <<>>
  /\ shText = <<>>
  /\ shPc = "idle"

\* No filter built and no candidate analysed on its own.
NoFile ==
  [name |-> <<>>, mimeType |-> "none", broken |-> FALSE, title |-> <<>>,
   tabs |-> <<>>, sheets |-> <<>>, hasSlides |-> FALSE, slides |-> <<>>]

NoContent == [threw |-> FALSE, text |-> <<>>]

NoScore == [threw |-> FALSE, value |-> 0]

AnalysisIdle ==
  /\ anQuery = <<>>
  /\ anVariant = "none"
  /\ anFilter = <<>>
  /\ anFile = NoFile
  /\ anContent = NoContent
  /\ anScore = NoScore
  /\ anPc = "idle"

Init ==
  /\ op \in {"tool", "rank"}
  /\ query \in Queries
  /\ maxResults \in (IF op = "rank" THEN RequestedValues ELSE {DefaultMaxResults})
  /\ \E status \in [1..NumFiles -> FileStatuses] : RequestInit(status)
  /\ SummaryIdle
  /\ AnalysisIdle
  /\ ExtractorsIdle

\* searchFilesWithContentAnalysis is called: it calls searchFiles, which
\* issues drive.files.list and awaits the answer.
RankStart ==
  /\ pc = "start" /\ op = "rank"
  /\ listCalls' = listCalls + 1
  /\ requestedPageSize' = PageSize(maxResults)
  /\ listOutcome' = NoOutcome
  /\ pc' = "listing"
  /\ UNCHANGED <<fileStatus, op, query, maxResults, auth, fetchCalls, candidates,
                 taskResult, completed, response, run, prevResponse,
                 prevFirstDone, faulted, summaryVars,
                 analysisVars, extractorVars>>

\* The store answers the list call of rankSearch: the error is rethrown, or
\* no candidate gives the empty response, or searchResults.map starts one
\* task per candidate, each issuing its fetch, and Promise.all awaits them.
RankListResponds ==
  /\ pc = "listing" /\ op = "rank"
  /\ \E outcome \in StoreListOutcomes(fileStatus, requestedPageSize) :
       LET found == searchFiles(outcome) IN
       /\ listOutcome' = Answered(outcome)
       /\ IF found.threw
          THEN /\ response' = Thrown
               /\ pc' = "done"
               /\ UNCHANGED <<candidates, fetchCalls, extractorVars>>
          ELSE IF Len(found.files) = 0
          THEN /\ response' = EmptyRanked
               /\ pc' = "done"
               /\ UNCHANGED <<candidates, fetchCalls, extractorVars>>
          ELSE /\ candidates' = found.files
               /\ fetchCalls' = fetchCalls
                    + Cardinality({i \in 1..Len(found.files) :
                                     found.files[i].mimeType \in SearchedMimeTypes})
               /\ pc' = "fanout"
               /\ UNCHANGED response
  /\ UNCHANGED <<fileStatus, op, query, maxResults, auth, listCalls,
                 requestedPageSize, taskResult, completed, run, prevResponse,
                 prevFirstDone, faulted, summaryVars,
                 analysisVars, extractorVars>>

\* A Promise.all that resolves with the tasks completed so far.
JoinEarly ==
  /\ pc = "fanout"
  /\ completed # <<>>
  /\ response' = RankedResponse(
                   SortResults(AnalyzedResultsByCompletion(taskResult, completed)))
  /\ pc' = "done"
  /\ UNCHANGED <<fileStatus, op, query, maxResults, auth, listCalls, fetchCalls,
                 requestedPageSize, listOutcome, candidates, taskResult,
                 completed, run, prevResponse, prevFirstDone, faulted,
                 summaryVars, analysisVars, extractorVars>>

\* A task that adds its score to a total the tasks share.
TaskCompleteSharedScore(i) ==
  /\ pc = "fanout"
  /\ i \in 1..Len(candidates)
  /\ i \notin DOMAIN taskResult
  /\ taskResult' = taskResult @@
       (i :> LET own == AnalyzeFile(query, candidates[i], fileStatus[candidates[i].id])
             IN [own EXCEPT !.relevanceScore = @ + Len(completed)])
  /\ completed' = Append(completed, i)
  /\ UNCHANGED <<fileStatus, op, query, maxResults, pc, auth, listCalls,
                 fetchCalls, requestedPageSize, listOutcome, candidates,
                 response, run, prevResponse, prevFirstDone, faulted,
                 summaryVars, analysisVars, extractorVars>>

\* A task that fails when the content of any candidate of the request cannot
\* be fetched.
TaskCompleteFailingTogether(i) ==
  /\ pc = "fanout"
  /\ i \in 1..Len(candidates)
  /\ i \notin DOMAIN taskResult
  /\ taskResult' = taskResult @@
       (i :> IF \E j \in 1..Len(candidates) : fileStatus[candidates[j].id] = "broken"
             THEN ErrorResult(candidates[i])
             ELSE AnalyzeFile(query, candidates[i], fileStatus[candidates[i].id]))
  /\ completed' = Append(completed, i)
  /\ UNCHANGED <<fileStatus, op, query, maxResults, pc, auth, listCalls,
                 fetchCalls, requestedPageSize, listOutcome, candidates,
                 response, run, prevResponse, prevFirstDone, faulted,
                 summaryVars, analysisVars, extractorVars>>

\* A task that never settles when the fetch of its content fails.
TaskCompleteOnlyOnSuccess(i) ==
  /\ pc = "fanout"
  /\ i \in 1..Len(candidates)
  /\ i \notin DOMAIN taskResult
  /\ fileStatus[candidates[i].id] # "broken"
  /\ taskResult' = taskResult @@
       (i :> AnalyzeFile(query, candidates[i], fileStatus[candidates[i].id]))
  /\ completed' = Append(completed, i)
  /\ UNCHANGED <<fileStatus, op, query, maxResults, pc, auth, listCalls,
                 fetchCalls, requestedPageSize, listOutcome, candidates,
                 response, run, prevResponse, prevFirstDone, faulted,
                 summaryVars, analysisVars, extractorVars>>

\* The task of candidate i completes, with a result or with ErrorResult.
TaskComplete(i) ==
  /\ pc = "fanout"
  /\ i \in 1..Len(candidates)
  /\ i \notin DOMAIN taskResult
  /\ taskResult' = taskResult @@
       (i :> AnalyzeFile(query, candidates[i], fileStatus[candidates[i].id]))
  /\ completed' = Append(completed, i)
  /\ UNCHANGED <<fileStatus, op, query, maxResults, pc, auth, listCalls,
                 fetchCalls, requestedPageSize, listOutcome, candidates,
                 response, run, prevResponse, prevFirstDone, faulted, summaryVars,
                 analysisVars, extractorVars>>

\* Promise.all resolves once every task has completed: the results are
\* sorted and returned.
Join ==
  /\ pc = "fanout"
  /\ DOMAIN taskResult = 1..Len(candidates)
  /\ response' = RankedResponse(SortResults(AnalyzedResults(taskResult, completed)))
  /\ pc' = "done"
  /\ UNCHANGED <<fileStatus, op, query, maxResults, auth, listCalls, fetchCalls,
                 requestedPageSize, listOutcome, candidates, taskResult,
                 completed, run, prevResponse, prevFirstDone, faulted, summaryVars,
                 analysisVars, extractorVars>>

\* The caller runs the same request again, against the same store.
Rerun ==
  /\ pc = "done" /\ op = "rank"
  /\ run < MaxRuns
  /\ run' = run + 1
  /\ prevResponse' = response
  /\ prevFirstDone' = IF completed = <<>> THEN 0 ELSE completed[1]
  /\ response' = NoResponse
  /\ listOutcome' = NoOutcome
  /\ candidates' = <<>>
  /\ taskResult' = EmptyResults
  /\ completed' = <<>>
  /\ pc' = "start"
  /\ UNCHANGED <<fileStatus, op, query, maxResults, auth, listCalls, fetchCalls,
                 requestedPageSize, faulted, summaryVars,
                 analysisVars, extractorVars>>

\* g_drive_search_files up to its store call: getAuthClient resolves to a
\* client or to null, or rejects; checkAuthAndReturnError; then searchFiles
\* with the default maxResults issues drive.files.list.
ToolStart ==
  /\ pc = "start" /\ op = "tool"
  /\ \E got \in {"client", "null", "rejected"} :
       /\ auth' = got
       /\ IF got = "rejected"
          THEN /\ response' = createErrorResponse
               /\ pc' = "done"
               /\ UNCHANGED <<listCalls, requestedPageSize, extractorVars>>
          ELSE IF checkAuthAndReturnError(got).isError
          THEN /\ response' = checkAuthAndReturnError(got)
               /\ pc' = "done"
               /\ UNCHANGED <<listCalls, requestedPageSize, extractorVars>>
          ELSE /\ listCalls' = listCalls + 1
               /\ requestedPageSize' = PageSize(maxResults)
               /\ pc' = "listing"
               /\ UNCHANGED response
  /\ UNCHANGED <<fileStatus, op, query, maxResults, fetchCalls, listOutcome,
                 candidates, taskResult, completed, run, prevResponse,
                 prevFirstDone, faulted, summaryVars,
                 analysisVars, extractorVars>>

\* The store answers the list call of g_drive_search_files: the success
\* response with the files found, or the catch block's error response.
ToolListResponds ==
  /\ pc = "listing" /\ op = "tool"
  /\ \E outcome \in StoreListOutcomes(fileStatus, requestedPageSize) :
       LET found == searchFiles(outcome) IN
       /\ listOutcome' = Answered(outcome)
       /\ response' = IF found.threw THEN createErrorResponse
                      ELSE createSuccessResponse(found.files)
  /\ pc' = "done"
  /\ UNCHANGED <<fileStatus, op, query, maxResults, auth, listCalls, fetchCalls,
                 requestedPageSize, candidates, taskResult, completed, run,
                 prevResponse, prevFirstDone, faulted, summaryVars,
                 analysisVars, extractorVars>>

Next ==
  \/ RankStart
  \/ RankListResponds
  \/ \E i \in 1..NumFiles : TaskComplete(i)
  \/ Join
  \/ Rerun
  \/ ToolStart
  \/ ToolListResponds

Spec == Init /\ [][Next]_vars

\* ------------------------------------------------------ claims on rankSearch

\* rankSearch has returned a ranked response after a fan-out.
RankedAfterFanout ==
  /\ op = "rank" /\ pc = "done" /\ response.kind = "ranked" /\ candidates # <<>>

\* Positions of response.results that carry candidate i's id.
ResultPositions(i) ==
  {k \in 1..Len(response.results) : response.results[k].id = candidates[i].id}

\* Candidate i's task fails: its content cannot be fetched, or a term of the
\* query is rejected by the RegExp constructor while scoring.
FailingCandidate(i) ==
  \/ fileStatus[candidates[i].id] = "broken"
  \/ \E k \in 1..Len(query) : query[k] = "("

\* C1: whenever rankSearch returns a ranked response, whatever tasks failed,
\* len(results) = totalCount = the number of candidates the retriever
\* returned, and every candidate appears exactly once in results.
C1_NoDropNoDuplicate ==
  (op = "rank" /\ pc = "done" /\ response.kind = "ranked") =>
    /\ Len(response.results) = response.totalCount
    /\ response.totalCount = Len(candidates)
    /\ \A i \in 1..Len(candidates) : Cardinality(ResultPositions(i)) = 1

\* A response of three results, some of failed tasks and some not.
C1_Witness ==
  /\ RankedAfterFanout
  /\ Len(candidates) = 3
  /\ \E i, j \in 1..3 :
       /\ fileStatus[candidates[i].id] = "broken"
       /\ fileStatus[candidates[j].id] = "ok"
  /\ \E k \in 1..3 : response.results[k].type # "Error"

\* C2: in every ranked response, results is sorted non-increasing by
\* relevanceScore, the score-0 placeholders of failed candidates included.
C2_SortedByScore ==
  (op = "rank" /\ pc = "done" /\ response.kind = "ranked") =>
    \A i, j \in 1..Len(response.results) :
      i < j => response.results[i].relevanceScore >= response.results[j].relevanceScore

\* A response in which a placeholder of score 0 was retrieved before a
\* candidate of positive score, and follows it in results.
C2_Witness ==
  /\ RankedAfterFanout
  /\ \E i, j \in 1..Len(candidates) :
       /\ i < j
       /\ fileStatus[candidates[i].id] = "broken"
       /\ taskResult[j].relevanceScore > 0
       /\ \E k \in ResultPositions(j), l \in ResultPositions(i) : k < l

\* C3: when tasks of a request fail, rankSearch still returns a ranked
\* response holding every candidate, never the exception, and each failing
\* candidate appears with relevanceScore 0, type "Error" and the fixed
\* content-unavailable summary.
C3_FailureIsolated ==
  (op = "rank" /\ pc = "done" /\ candidates # <<>>) =>
    /\ response.kind = "ranked"
    /\ response.totalCount = Len(candidates)
    /\ \A i \in 1..Len(candidates) :
         FailingCandidate(i) =>
           \E k \in ResultPositions(i) :
             /\ response.results[k].relevanceScore = 0
             /\ response.results[k].type = "Error"
             /\ response.results[k].summary = UnavailableSummary

\* Three candidates, the fetch of exactly one of them failing.
C3_Witness ==
  /\ RankedAfterFanout
  /\ Len(candidates) = 3
  /\ response.totalCount = 3
  /\ Cardinality({i \in 1..3 : fileStatus[candidates[i].id] = "broken"}) = 1
  /\ Cardinality({k \in 1..3 : response.results[k].type = "Error"}) = 1

\* C4: when the store answers the list call of rankSearch with no file,
\* rankSearch returns the non-error response with totalCount 0 and empty
\* results, and has started no per-candidate task.
C4_EmptyIsNotAnError ==
  (op = "rank" /\ listOutcome.answered /\ listOutcome.ok /\ listOutcome.files = <<>>) =>
    /\ pc = "done"
    /\ response.kind = "ranked"
    /\ ~response.isError
    /\ response.totalCount = 0
    /\ response.results = <<>>
    /\ candidates = <<>>
    /\ DOMAIN taskResult = {}
    /\ completed = <<>>
    /\ fetchCalls = 0

\* The store holds a matching PDF, and no matching file of the three formats,
\* and answers without the files field.
C4_Witness ==
  /\ op = "rank" /\ pc = "done"
  /\ listOutcome.answered /\ listOutcome.ok /\ ~listOutcome.hasFiles
  /\ \E i \in DOMAIN fileStatus : fileStatus[i] = "ok"
  /\ response.kind = "ranked"

\* C5: when the store call of the retriever fails, rankSearch throws: no
\* per-candidate task is started and no result list is returned; and the
\* search tool answers with its one error-flagged response.
C5_RetrievalFailureIsFatal ==
  (listOutcome.answered /\ ~listOutcome.ok) =>
    /\ pc = "done"
    /\ response.isError
    /\ response.results = <<>>
    /\ op = "rank" => response.kind = "thrown"
    /\ op = "tool" => response.kind = "error"
    /\ candidates = <<>>
    /\ DOMAIN taskResult = {}
    /\ completed = <<>>

\* The store fails although it holds readable matching files.
C5_Witness ==
  /\ op = "rank" /\ pc = "done"
  /\ listOutcome.answered /\ ~listOutcome.ok
  /\ requestedPageSize >= 1
  /\ \E i \in DOMAIN fileStatus :
       fileStatus[i] = "ok" /\ TemplateOf(i).mimeType \in SearchedMimeTypes
  /\ response.kind = "thrown"

\* C6: when getAuthClient yields null, g_drive_search_files returns the
\* authentication error and issues no list call and no fetch; the handler
\* issues a store call only with a client in hand.
C6_AuthBeforeStore ==
  /\ (op = "tool" /\ auth = "null") =>
       /\ pc = "done"
       /\ response.kind = "authError"
       /\ response.isError
       /\ listCalls = 0
       /\ fetchCalls = 0
       /\ ~listOutcome.answered
  /\ (op = "tool" /\ listCalls > 0) => auth = "client"

\* The handler has returned for a null handle, the store holding matches.
C6_Witness ==
  /\ op = "tool" /\ auth = "null" /\ pc = "done"
  /\ \E i \in DOMAIN fileStatus :
       fileStatus[i] = "ok" /\ TemplateOf(i).mimeType \in SearchedMimeTypes

\* Position of the candidate with this id in the retriever's order.
RetrievalPosition(id) == CHOOSE i \in 1..Len(candidates) : candidates[i].id = id

\* C8: of two results with equal relevanceScore, the candidate retrieved
\* earlier comes earlier in results, whatever order the tasks completed in.
C8_TiesByRetrievalOrder ==
  (op = "rank" /\ pc = "done" /\ response.kind = "ranked") =>
    \A k, l \in 1..Len(response.results) :
      (k < l /\ response.results[k].relevanceScore = response.results[l].relevanceScore)
        => RetrievalPosition(response.results[k].id) < RetrievalPosition(response.results[l].id)

\* A failed candidate and a readable candidate that scores 0 tie, and the
\* task of the one retrieved later completed first.
C8_Witness ==
  /\ RankedAfterFanout
  /\ \E i, j \in 1..Len(candidates) :
       /\ i < j
       /\ taskResult[i].type # taskResult[j].type
       /\ "Error" \in {taskResult[i].type, taskResult[j].type}
       /\ taskResult[i].relevanceScore = taskResult[j].relevanceScore
       /\ \E a, b \in 1..Len(completed) :
            a < b /\ completed[a] = j /\ completed[b] = i

\* C9: rankSearch run twice with the same query and maxResults against the
\* unchanged store gives the same results both times: the same candidates
\* with the same scores and summaries, in the same order.
C9_Idempotent ==
  (op = "rank" /\ run >= 2 /\ pc = "done"
     /\ response.kind = "ranked" /\ prevResponse.kind = "ranked") =>
    response = prevResponse

\* Both runs returned several results, with a tie among them, and a different
\* task completed first in each.
C9_Witness ==
  /\ RankedAfterFanout
  /\ run >= 2
  /\ prevResponse.kind = "ranked"
  /\ Len(response.results) >= 3
  /\ completed[1] # prevFirstDone
  /\ \E k \in 1..(Len(response.results) - 1) :
       response.results[k].relevanceScore = response.results[k + 1].relevanceScore
  /\ \E k \in 1..Len(response.results) : response.results[k].relevanceScore > 0

\* C7 is checked under SpecCap: rankSearch on stores of up to CapFiles
\* readable files, for maxResults in -1..CapRequested, the tasks completing
\* in the order of the candidates.
InitCap ==
  /\ op = "rank"
  /\ query = <<"z">>
  /\ maxResults \in (-1)..CapRequested
  /\ \E n \in 0..CapFiles : RequestInit([i \in 1..n |-> "ok"])
  /\ SummaryIdle
  /\ AnalysisIdle
  /\ ExtractorsIdle

TaskCompleteNext == TaskComplete(Len(completed) + 1)

NextCap ==
  \/ RankStart
  \/ RankListResponds
  \/ TaskCompleteNext
  \/ Join

SpecCap == InitCap /\ [][NextCap]_vars

\* Tasks of the fan-out that have not completed.
InFlight == (1..Len(candidates)) \ DOMAIN taskResult

\* C7: whatever maxResults the caller gives, the page size requested from the
\* store is at most 20, at most 20 candidates are retrieved and at most 20
\* per-candidate tasks are in flight at once.
C7_FanOutAtMostTwenty ==
  /\ requestedPageSize <= 20
  /\ listOutcome.answered => Len(listOutcome.files) <= 20
  /\ Len(candidates) <= 20
  /\ Cardinality(InFlight) <= 20

\* maxResults above 20 on a store of more than 20 matching files: 20 tasks
\* are in flight.
C7_Witness ==
  /\ maxResults > 20
  /\ Len(MatchingFiles(fileStatus)) > 20
  /\ pc = "fanout"
  /\ Len(candidates) = 20
  /\ Cardinality(InFlight) = 20

\* ---------------------------------------------------- claims on the summary

\* The characters of the texts summarised on their own.
SummaryAlphabet == {"a", " ", "."}

TextsUpTo(n) == UNION {[1..k -> SummaryAlphabet] : k \in 0..n}

Filler(n) == [i \in 1..n |-> "a"]

\* Texts of about ShortContentLimit characters, shorter, equal and longer:
\* a filler between a short head and a short tail.
BoundaryTexts ==
  {head \o Filler(n) \o tail :
     head \in TextsUpTo(1),
     n \in (ShortContentLimit - MaxTextLen - 1)..ShortContentLimit,
     tail \in TextsUpTo(MaxTextLen)}

\* The sentences of the long texts: one of exactly MinSentenceLength
\* characters, one of one character more, one of a third of what fits in
\* MaxSummaryLength with the separators, and that one with a digit behind.
LongSentence == Filler((MaxSummaryLength - TopSentences) \div TopSentences)

SentenceKinds ==
  {Filler(MinSentenceLength), Filler(MinSentenceLength + 1), LongSentence,
   LongSentence \o <<"7">>}

\* ShortContentLimit characters of sentences of MinSentenceLength - 1
\* characters.
ShortSentenceRun ==
  Repeat(Filler(MinSentenceLength - 1) \o <<".">>,
         ShortContentLimit \div MinSentenceLength)

\* Long texts: up to MaxSentences sentences, each closed by a full stop,
\* behind nothing or behind the run of short sentences.
LongTexts ==
  {lead \o join(body, <<".">>) \o <<".">> :
     lead \in {<<>>, ShortSentenceRun},
     body \in UNION {[1..k -> SentenceKinds] : k \in 1..MaxSentences}}

\* Texts of whitespace only, of up to MaxTextLen characters.
WhitespaceTexts == UNION {[1..k -> Whitespace] : k \in 0..MaxTextLen}

\* SpecSummary: generateSummary called on one text.
InitSummary ==
  /\ sumContent \in TextsUpTo(MaxTextLen) \cup BoundaryTexts \cup WhitespaceTexts
                     \cup LongTexts
  /\ sumFileName = <<"f">>
  /\ sumResult = <<>>
  /\ sumPc = "call"
  /\ op = "none"
  /\ query = <<>>
  /\ maxResults = 0
  /\ RequestInit(<<>>)
  /\ AnalysisIdle
  /\ ExtractorsIdle

Summarize ==
  /\ sumPc = "call"
  /\ sumResult' = generateSummary(sumContent, sumFileName)
  /\ sumPc' = "done"
  /\ UNCHANGED <<sumContent, sumFileName, requestVars, analysisVars, extractorVars>>

NextSummary == Summarize

SpecSummary == InitSummary /\ [][NextSummary]_vars

\* out is text without its leading and trailing whitespace.
IsTrimmed(out, text) ==
  \E i \in 1..Len(text) :
    /\ text[i] \notin Whitespace
    /\ \A k \in 1..(i - 1) : text[k] \in Whitespace
    /\ \E j \in i..Len(text) :
         /\ text[j] \notin Whitespace
         /\ \A k \in (j + 1)..Len(text) : text[k] \in Whitespace
         /\ out = SubSeq(text, i, j)

\* C10 as claimed: for every text of at most 300 characters that is not empty
\* or whitespace-only, the summary is the text trimmed, exactly.
C10_ShortTextVerbatim ==
  (/\ sumPc = "done"
   /\ Len(sumContent) <= 300
   /\ \E i \in 1..Len(sumContent) : sumContent[i] \notin Whitespace)
  => IsTrimmed(sumResult, sumContent)

\* C10 as amended: for every text of at most 300 characters that holds a
\* character other than whitespace and the sentence delimiters, the summary
\* is the text trimmed, exactly; a text of delimiters and whitespace only
\* is summarised by the no-readable-text notice.
C10_ShortTextWithWordsVerbatim ==
  /\ (/\ sumPc = "done"
      /\ Len(sumContent) <= 300
      /\ \E i \in 1..Len(sumContent) :
           sumContent[i] \notin (Whitespace \cup SentenceDelims))
     => IsTrimmed(sumResult, sumContent)
  /\ (/\ sumPc = "done"
      /\ \E i \in 1..Len(sumContent) : sumContent[i] \notin Whitespace
      /\ \A i \in 1..Len(sumContent) :
           sumContent[i] \in (Whitespace \cup SentenceDelims))
     => sumResult = sumFileName \o NoReadableTextNotice

\* A text of exactly 300 characters with whitespace at both ends and sentence
\* delimiters inside has been summarised.
C10_Witness ==
  /\ sumPc = "done"
  /\ Len(sumContent) = 300
  /\ sumContent[1] \in Whitespace
  /\ sumContent[300] \in Whitespace
  /\ \E i \in 1..300 : sumContent[i] \in SentenceDelims
  /\ Len(sumResult) < 300

\* ------------------------------------- a candidate analysed on its own

\* The queries of SpecAnalysis: every string of up to MaxQueryLen characters
\* of QueryAlphabet, and the queries of the scenarios.
QueryAlphabet == {"a", "b", "A", " ", ".", "("}

BudgetQuery == <<"b", "u", "d", "g", "e", "t">>
ProjectPlanQuery == <<"p", "r", "o", "j", "e", "c", "t", " ", "p", "l", "a", "n">>

AnalysisQueries ==
  UNION {[1..k -> QueryAlphabet] : k \in 0..MaxQueryLen}
  \cup {BudgetQuery, ProjectPlanQuery}

\* A candidate with its payload: the tab texts of a document, the title and
\* sheets of a spreadsheet, the title and slides of a presentation.
Candidate(name, mimeType, title, tabs, sheets, hasSlides, slides) ==
  [name |-> name, mimeType |-> mimeType, broken |-> FALSE, title |-> title,
   tabs |-> tabs, sheets |-> sheets, hasSlides |-> hasSlides, slides |-> slides]

\* The spreadsheet "Q1 Budget" with the one cell "budget forecast".
BudgetSheet(title) ==
  Candidate(<<"Q", "1", " ", "B", "u", "d", "g", "e", "t">>, SpreadsheetMime, title, <<>>,
            <<[name |-> <<"S", "h", "e", "e", "t", "1">>, values |-> << <<<<"b", "u", "d", "g", "e", "t", " ", "f", "o", "r", "e", "c", "a", "s", "t">>>> >>]>>,
            FALSE, <<>>)

\* The document "Project Plan" with the text "the project plan".
ProjectPlanDoc ==
  Candidate(<<"P", "r", "o", "j", "e", "c", "t", " ", "P", "l", "a", "n">>, DocumentMime, <<>>, <<<<"t", "h", "e", " ", "p", "r", "o", "j", "e", "c", "t", " ", "p", "l", "a", "n">>>>,
            <<>>, FALSE, <<>>)

\* A presentation with a title and an empty list of slides.
EmptyDeck ==
  Candidate(<<"P", "l", "a", "n">>, PresentationMime, <<"P", "l", "a", "n">>, <<>>, <<>>, TRUE, <<>>)

\* A presentation with neither title nor slides field: its text is empty.
BareDeck == Candidate(<<"a", "b">>, PresentationMime, <<>>, <<>>, <<>>, FALSE, <<>>)

AnalysisFiles ==
  { BudgetSheet(<<"Q", "1", " ", "B", "u", "d", "g", "e", "t">>),
    BudgetSheet(<<>>),
    ProjectPlanDoc,
    EmptyDeck,
    BareDeck,
    \* a document of two tabs
    Candidate(<<"a", "b">>, DocumentMime, <<>>, <<<<"a", " ", "b">>, <<"b", " ", "a", " ", "b">>>>, <<>>, FALSE, <<>>),
    \* a document whose tabs hold whitespace only
    Candidate(<<"A">>, DocumentMime, <<>>, <<<<" ">>, <<"\n">>>>, <<>>, FALSE, <<>>),
    \* a presentation of two slides
    Candidate(<<"b">>, PresentationMime, <<>>, <<>>, <<>>, TRUE,
              << <<<<"a", "b", "c">>, <<"a", ".", "c">>>>, <<<<"a", "a">>>> >>),
    \* a spreadsheet without data
    Candidate(<<"a">>, SpreadsheetMime, <<"a">>, <<>>, <<>>, FALSE, <<>>),
    \* a file of another format
    Candidate(<<"a", " ", "b">>, PdfMime, <<>>, <<>>, <<>>, FALSE, <<>>),
    \* a document that cannot be fetched
    [Candidate(<<"a">>, DocumentMime, <<>>, <<>>, <<>>, FALSE, <<>>)
       EXCEPT !.broken = TRUE] }

\* content of the switch on file.mimeType, from the candidate's payload.
ExtractText(file) ==
  CASE file.mimeType = DocumentMime -> join(file.tabs, <<" ">>)
    [] file.mimeType = SpreadsheetMime ->
         getSpreadsheetText([title |-> file.title, sheets |-> file.sheets])
    [] file.mimeType = PresentationMime ->
         getPresentationText([title |-> file.title, hasSlides |-> file.hasSlides,
                              slides |-> file.slides])
    [] OTHER -> file.name

InitAnalysis ==
  /\ anQuery \in AnalysisQueries
  /\ anVariant = "none"
  /\ anFilter = <<>>
  /\ anFile \in AnalysisFiles
  /\ anContent = NoContent
  /\ anScore = NoScore
  /\ anPc = "extract"
  /\ op = "none"
  /\ query = <<>>
  /\ maxResults = 0
  /\ RequestInit(<<>>)
  /\ SummaryIdle
  /\ ExtractorsIdle

\* The task fetches the candidate and extracts its text; a failed fetch ends
\* the task in its catch block.
Extract ==
  /\ anPc = "extract"
  /\ anContent' = IF anFile.broken THEN [threw |-> TRUE, text |-> <<>>]
                  ELSE [threw |-> FALSE, text |-> ExtractText(anFile)]
  /\ anPc' = IF anFile.broken THEN "done" ELSE "score"
  /\ UNCHANGED <<anQuery, anVariant, anFilter, anFile, anScore, requestVars,
                 summaryVars, extractorVars>>

\* The task scores the text.
Score ==
  /\ anPc = "score"
  /\ anScore' = calculateRelevanceScore(anQuery, anFile.name, anContent.text)
  /\ anPc' = "done"
  /\ UNCHANGED <<anQuery, anVariant, anFilter, anFile, anContent, requestVars,
                 summaryVars, extractorVars>>

NextAnalysis ==
  \/ Extract
  \/ Score

SpecAnalysis == InitAnalysis /\ [][NextAnalysis]_vars

\* The candidate's text has been extracted and scored.
Scored == anPc = "done" /\ ~anContent.threw

\* text is empty or holds whitespace only.
Blank(text) == \A i \in 1..Len(text) : text[i] \in Whitespace

\* Every term of the query is a non-empty string of letters and digits.
PlainTerms(q) ==
  LET terms == QueryTerms(q) IN
  \A k \in 1..Len(terms) :
    /\ terms[k] # <<>>
    /\ \A i \in 1..Len(terms[k]) :
         terms[k][i] \in (UpperLetters \cup LowerLetters \cup Digits)

\* 10 for each term the file name contains, 20 more for each term it equals.
RECURSIVE NamePoints(_, _)
NamePoints(terms, fileNameLower) ==
  IF terms = <<>> THEN 0
  ELSE (IF includes(fileNameLower, Head(terms)) THEN 10 ELSE 0)
       + (IF fileNameLower = Head(terms) THEN 20 ELSE 0)
       + NamePoints(Tail(terms), fileNameLower)

\* C11 as claimed: for any non-empty query and any file name, a candidate
\* whose extracted text is empty or whitespace-only is scored 0.
C11_BlankTextScoresZero ==
  (Scored /\ anQuery # <<>> /\ Blank(anContent.text)) => anScore.value = 0

\* C11 as amended: for a query whose terms are non-empty strings of letters
\* and digits, a candidate whose extracted text is empty or whitespace-only
\* is scored by its file name alone: 10 for each term the lowercased name
\* contains and 20 more for each term equal to it, so 0 only when the name
\* contains no term.
C11_BlankTextScoresByName ==
  (Scored /\ Blank(anContent.text) /\ PlainTerms(anQuery)) =>
    /\ ~anScore.threw
    /\ anScore.value = NamePoints(QueryTerms(anQuery), toLowerCase(anFile.name))

\* A candidate of whitespace-only text whose name is the query's one term.
C11_Witness ==
  /\ Scored
  /\ anContent.text # <<>>
  /\ Blank(anContent.text)
  /\ PlainTerms(anQuery)
  /\ Len(QueryTerms(anQuery)) = 1
  /\ anScore.value = 30

\* C13 as claimed: query "budget" on the spreadsheet "Q1 Budget" whose one
\* cell holds "budget forecast" is scored 12.
C13_ScenarioAScoresTwelve ==
  (Scored /\ anQuery = BudgetQuery /\ anFile = BudgetSheet(anFile.title)) =>
    anScore.value = 12

\* C13 as amended: that spreadsheet is scored 34 = 10 (file name) + 2 x 2
\* (the title line of the extracted text and the cell) + 20 (the text
\* contains the whole query), and 32 when its metadata carries no title.
C13_ScenarioAScoresWithBonus ==
  (Scored /\ anQuery = BudgetQuery /\ anFile = BudgetSheet(anFile.title)) =>
    /\ ~anScore.threw
    /\ anScore.value = IF anFile.title # <<>> THEN 34 ELSE 32

\* The titled spreadsheet of the scenario has been scored for "budget".
C13_Witness ==
  /\ Scored
  /\ anQuery = BudgetQuery
  /\ anFile = BudgetSheet(<<"Q", "1", " ", "B", "u", "d", "g", "e", "t">>)
  /\ includes(anContent.text, <<"b", "u", "d", "g", "e", "t", " ", "f", "o", "r", "e", "c", "a", "s", "t">>)
  /\ anScore.value = 34

\* 10 for each term the file name contains and 2 for each match of the term
\* in the text.
RECURSIVE NameAndTextPoints(_, _, _)
NameAndTextPoints(terms, fileNameLower, contentLower) ==
  IF terms = <<>> THEN 0
  ELSE (IF includes(fileNameLower, Head(terms)) THEN 10 ELSE 0)
       + 2 * MatchCount(Head(terms), contentLower)
       + NameAndTextPoints(Tail(terms), fileNameLower, contentLower)

\* C14: a query of k >= 2 terms scored against a text that contains the whole
\* query as a phrase gets the 20-point bonus k times, on top of each term's
\* 10 for the file name and 2 per occurrence; "project plan" on the document
\* "Project Plan" with the text "the project plan" is scored 64.
C14_BonusOncePerTerm ==
  /\ (/\ Scored /\ ~anScore.threw
      /\ Len(QueryTerms(anQuery)) >= 2
      /\ includes(toLowerCase(anContent.text), toLowerCase(anQuery)))
     => anScore.value =
          20 * Len(QueryTerms(anQuery))
          + NameAndTextPoints(QueryTerms(anQuery), toLowerCase(anFile.name),
                              toLowerCase(anContent.text))
  /\ (Scored /\ anQuery = ProjectPlanQuery /\ anFile = ProjectPlanDoc)
     => anScore.value = 64

\* "project plan" has been scored on the document that holds the phrase.
C14_Witness ==
  /\ Scored
  /\ anQuery = ProjectPlanQuery
  /\ anFile = ProjectPlanDoc
  /\ Len(QueryTerms(anQuery)) = 2
  /\ anScore.value = 64

\* s ends with suffix.
EndsWith(s, suffix) ==
  /\ Len(suffix) <= Len(s)
  /\ SubSeq(s, Len(s) - Len(suffix) + 1, Len(s)) = suffix

\* C15: for a presentation with 0 slides the extractor of the search returns,
\* without throwing, a text that ends in the "no slides" notice.
C15_NoSlidesNotice ==
  (/\ anPc \in {"score", "done"}
   /\ anFile.mimeType = PresentationMime
   /\ ~anFile.broken
   /\ (~anFile.hasSlides \/ anFile.slides = <<>>))
  => /\ ~anContent.threw
     /\ EndsWith(anContent.text, NoSlidesNotice)

\* The occurrences of term as a literal substring of text, counted from left
\* to right without overlap; the empty term occurs between any two characters.
RECURSIVE LiteralCountFrom(_, _, _)
LiteralCountFrom(term, text, i) ==
  IF i > Len(text) + 1 THEN 0
  ELSE IF OccursAt(term, text, i)
       THEN 1 + LiteralCountFrom(term, text,
                                 i + (IF Len(term) = 0 THEN 1 ELSE Len(term)))
       ELSE LiteralCountFrom(term, text, i + 1)

\* The score when each term adds 2 per literal occurrence in the text.
RECURSIVE LiteralScore(_, _, _, _)
LiteralScore(terms, queryLower, fileNameLower, contentLower) ==
  IF terms = <<>> THEN 0
  ELSE (IF includes(fileNameLower, Head(terms)) THEN 10 ELSE 0)
       + 2 * LiteralCountFrom(Head(terms), contentLower, 1)
       + (IF fileNameLower = Head(terms) \/ includes(contentLower, queryLower)
          THEN 20 ELSE 0)
       + LiteralScore(Tail(terms), queryLower, fileNameLower, contentLower)

\* C17: for every query term and every text, the term adds to the score
\* exactly 2 x its number of occurrences as a literal substring of the
\* lowercased text; its characters are never read as a pattern.
C17_TextPointsCountLiteralOccurrences ==
  Scored =>
    /\ ~anScore.threw
    /\ anScore.value = LiteralScore(QueryTerms(anQuery), toLowerCase(anQuery),
                                    toLowerCase(anFile.name),
                                    toLowerCase(anContent.text))

\* C12: for every text that is empty or holds whitespace only, the summary is
\* the file name followed by the "empty content" notice, and nothing of the
\* text.
C12_BlankTextGetsEmptyNotice ==
  (sumPc = "done" /\ Blank(sumContent)) =>
    sumResult = sumFileName \o EmptyContentNotice

\* A text of several kinds of whitespace has been summarised.
C12_Witness ==
  /\ sumPc = "done"
  /\ Len(sumContent) >= 2
  /\ Blank(sumContent)
  /\ \E i, j \in 1..Len(sumContent) : sumContent[i] # sumContent[j]
  /\ sumResult = sumFileName \o EmptyContentNotice

\* ------------------------------------------------- the filter of searchFiles

\* The queries of SpecFilter: a letter, the quote and the backslash.
FilterAlphabet == {"a", "'", "\\"}

FilterQueries == UNION {[1..k -> FilterAlphabet] : k \in 0..MaxFilterLen}

InitFilter ==
  /\ anQuery \in FilterQueries
  /\ anVariant \in {DriveServiceVariant, Part007Variant}
  /\ anFilter = <<>>
  /\ anFile = NoFile
  /\ anContent = NoContent
  /\ anScore = NoScore
  /\ anPc = "filter"
  /\ op = "none"
  /\ query = <<>>
  /\ maxResults = 0
  /\ RequestInit(<<>>)
  /\ SummaryIdle
  /\ ExtractorsIdle

\* searchFiles builds the q parameter of drive.files.list.
BuildSearchQuery ==
  /\ anPc = "filter"
  /\ anFilter' = FilterOf(anVariant, anQuery)
  /\ anPc' = "done"
  /\ UNCHANGED <<anQuery, anVariant, anFile, anContent, anScore, requestVars,
                 summaryVars, extractorVars>>

NextFilter == BuildSearchQuery

SpecFilter == InitFilter /\ [][NextFilter]_vars

\* How the store reads q: a quote opens a string literal, which runs to the
\* next quote that no backslash precedes; inside it a backslash stands for
\* the character that follows it.  The reading gives the literals of q, the
\* rest of q with a mark in the place of each literal, and whether the last
\* literal is closed.
LiteralMark == "<literal>"

RECURSIVE ReadFilter(_, _, _, _, _, _)
ReadFilter(q, i, inside, current, literals, outside) ==
  IF i > Len(q)
  THEN [closed |-> ~inside, literals |-> literals, outside |-> outside]
  ELSE IF ~inside
  THEN IF q[i] = "'"
       THEN ReadFilter(q, i + 1, TRUE, <<>>, literals, outside)
       ELSE ReadFilter(q, i + 1, FALSE, <<>>, literals, Append(outside, q[i]))
  ELSE IF q[i] = "\\" /\ i < Len(q)
       THEN ReadFilter(q, i + 2, TRUE, Append(current, q[i + 1]), literals, outside)
       ELSE IF q[i] = "'"
       THEN ReadFilter(q, i + 1, FALSE, <<>>, Append(literals, current),
                       Append(outside, LiteralMark))
       ELSE ReadFilter(q, i + 1, TRUE, Append(current, q[i]), literals, outside)

FilterAsRead(q) == ReadFilter(q, 1, FALSE, <<>>, <<>>, <<>>)

\* C16: for every query, the quote and the backslash are escaped before the
\* query is put into the filter: the store reads the filter as it reads the
\* filter of a plain word, with the query, whole and unchanged, as the text
\* of the name-contains and of the fullText-contains literal.
C16_QueryStaysInsideItsLiteral ==
  anPc = "done" =>
    LET read == FilterAsRead(anFilter)
        plain == FilterAsRead(searchQuery(<<"a">>))
    IN /\ read.closed
       /\ read.outside = plain.outside
       /\ Len(read.literals) = Len(plain.literals)
       /\ read.literals[Len(read.literals) - 1] = anQuery
       /\ read.literals[Len(read.literals)] = anQuery

\* ------------------------------------------- claims on the fan-out and join

\* C18: rankSearch gives no response while a task of the fan-out is pending;
\* it returns once every task has completed, with a result or with the
\* placeholder of a failure, and a failed task does not end the wait.
C18_JoinBarrier ==
  /\ (op = "rank" /\ pc = "fanout") => response = NoResponse
  /\ (op = "rank" /\ candidates # <<>> /\ response # NoResponse) =>
       /\ pc = "done"
       /\ DOMAIN taskResult = 1..Len(candidates)
       /\ Len(completed) = Len(candidates)
       /\ Len(response.results) = Len(candidates)

\* The task that completed first had failed, and two more completed after it
\* before rankSearch returned.
C18_Witness ==
  /\ RankedAfterFanout
  /\ Len(candidates) >= 3
  /\ taskResult[completed[1]].type = "Error"
  /\ fileStatus[candidates[completed[1]].id] = "broken"
  /\ \E i \in 1..Len(candidates) : taskResult[i].type # "Error"

\* C19: for a fixed query and store, the response does not depend on the
\* order the tasks complete in: in a second run the result of each task is
\* the result the first run returned for that candidate, whenever the task
\* completes, and the results are ordered by score and, among equal scores,
\* by the retriever's order.
C19_CompletionOrderIsInvisible ==
  /\ (op = "rank" /\ run >= 2 /\ prevResponse.kind = "ranked") =>
       \A i \in DOMAIN taskResult :
         \E k \in 1..Len(prevResponse.results) : prevResponse.results[k] = taskResult[i]
  /\ RankedAfterFanout =>
       /\ \A k \in 1..Len(response.results) :
            response.results[k] = taskResult[RetrievalPosition(response.results[k].id)]
       /\ \A k, l \in 1..Len(response.results) :
            k < l =>
              \/ response.results[k].relevanceScore > response.results[l].relevanceScore
              \/ /\ response.results[k].relevanceScore = response.results[l].relevanceScore
                 /\ RetrievalPosition(response.results[k].id)
                      < RetrievalPosition(response.results[l].id)

\* In the second run the task that had completed first completes last, among
\* three or more, some failing and some scoring.
C19_Witness ==
  /\ RankedAfterFanout
  /\ run >= 2
  /\ prevResponse.kind = "ranked"
  /\ Len(candidates) >= 3
  /\ completed[Len(completed)] = prevFirstDone
  /\ \E k \in 1..Len(response.results) : response.results[k].type = "Error"
  /\ \E k \in 1..Len(response.results) : response.results[k].relevanceScore > 0

\* C20 is checked under SpecFault: rankSearch run again after the content of
\* one listed file went bad (deleted or revoked after listing, malformed) or
\* came back, the tasks completing in the order of the candidates.
InitFault ==
  /\ op = "rank"
  /\ query \in Queries
  /\ maxResults = DefaultMaxResults
  /\ \E status \in [1..NumFiles -> FileStatuses] : RequestInit(status)
  /\ SummaryIdle
  /\ AnalysisIdle
  /\ ExtractorsIdle

\* The caller runs the same request again after the content of file j went
\* bad or came back.
RerunAfterFault ==
  /\ pc = "done" /\ op = "rank"
  /\ run < MaxRuns
  /\ \E j \in DOMAIN fileStatus :
       /\ fileStatus[j] # "absent"
       /\ fileStatus' = [fileStatus EXCEPT ![j] = IF @ = "ok" THEN "broken" ELSE "ok"]
       /\ faulted' = j
  /\ run' = run + 1
  /\ prevResponse' = response
  /\ prevFirstDone' = IF completed = <<>> THEN 0 ELSE completed[1]
  /\ response' = NoResponse
  /\ listOutcome' = NoOutcome
  /\ candidates' = <<>>
  /\ taskResult' = EmptyResults
  /\ completed' = <<>>
  /\ pc' = "start"
  /\ UNCHANGED <<op, query, maxResults, auth, listCalls, fetchCalls,
                 requestedPageSize, summaryVars, analysisVars, extractorVars>>

NextFault ==
  \/ RankStart
  \/ RankListResponds
  \/ TaskCompleteNext
  \/ Join
  \/ RerunAfterFault

SpecFault == InitFault /\ [][NextFault]_vars

\* C20: the result of a candidate carries the candidate's id, name, link and
\* modifiedTime unchanged, and its score, summary and type do not change when
\* another candidate of the request starts or stops failing.
C20_ResultOfOwnCandidateOnly ==
  op = "rank" =>
    /\ \A i \in DOMAIN taskResult :
         /\ taskResult[i].id = candidates[i].id
         /\ taskResult[i].name = candidates[i].name
         /\ taskResult[i].link = candidates[i].webViewLink
         /\ taskResult[i].modifiedTime = candidates[i].modifiedTime
    /\ (run >= 2 /\ prevResponse.kind = "ranked") =>
         \A i \in DOMAIN taskResult :
           candidates[i].id # faulted =>
             \E k \in 1..Len(prevResponse.results) :
               prevResponse.results[k] = taskResult[i]

\* Between two runs the content of one of three candidates went bad, and
\* another candidate is scored above 0 in the second run.
C20_Witness ==
  /\ RankedAfterFanout
  /\ run >= 2
  /\ prevResponse.kind = "ranked"
  /\ Len(candidates) >= 3
  /\ faulted # 0
  /\ fileStatus[faulted] = "broken"
  /\ \E i \in 1..Len(candidates) :
       /\ candidates[i].id # faulted
       /\ taskResult[i].relevanceScore > 0

\* ------------------------------------------------ claims on termination

\* SpecLive: one rankSearch request in which every upstream call responds in
\* the end, with data or with an error, and every continuation is run: the
\* list call, the fetch of each candidate, the resolution of Promise.all.
InitLive ==
  /\ op = "rank"
  /\ query = <<"p", "l", "a", "n">>
  /\ maxResults \in 0..(MaxRequested + 1)
  /\ \E status \in [1..NumFiles -> {"ok", "broken"}] : RequestInit(status)
  /\ SummaryIdle
  /\ AnalysisIdle
  /\ ExtractorsIdle

NextLive ==
  \/ RankStart
  \/ RankListResponds
  \/ \E i \in 1..NumFiles : TaskComplete(i)
  \/ Join

SpecLive ==
  /\ InitLive
  /\ [][NextLive]_vars
  /\ WF_vars(RankStart)
  /\ WF_vars(RankListResponds)
  /\ \A i \in 1..NumFiles : WF_vars(TaskComplete(i))
  /\ WF_vars(Join)

\* C21: when every upstream call responds in the end the request returns in
\* the end; and rankSearch has no timeout of its own: it leaves the fan-out
\* only once no task is pending, and while a task is pending it gives no
\* response, however many of the other tasks have completed.
C21_ReturnsOnlyWhenAllRespond ==
  /\ <>(pc = "done")
  /\ [][(pc = "fanout" /\ pc' # "fanout") => InFlight = {}]_vars
  /\ [][(pc = "fanout" /\ InFlight' # {}) => response' = NoResponse]_vars

\* All candidates but one have completed and rankSearch has not returned.
C21_Witness ==
  /\ op = "rank"
  /\ pc = "fanout"
  /\ Len(candidates) >= 2
  /\ Cardinality(InFlight) = 1
  /\ response = NoResponse

\* C22: the scorer returns a number for every query, so a candidate whose
\* content was fetched and extracted is never reported with type "Error" and
\* the content-unavailable summary; only a candidate whose fetch or extraction
\* failed is.
C22_ErrorOnlyForFailedFetch ==
  (op = "rank" /\ pc = "done" /\ response.kind = "ranked") =>
    \A k \in 1..Len(response.results) :
      (\/ response.results[k].type = "Error"
       \/ response.results[k].summary = UnavailableSummary)
        => fileStatus[response.results[k].id] = "broken"

\* ------------------------------------------ claims on sentence selection

\* The positions of the sentences of at least least characters once trimmed.
EligibleAt(sentences, least) ==
  {i \in 1..Len(sentences) : Len(trim(sentences[i])) >= least}

\* The selections of the highest importances among eligible: as many as
\* fit in 3, none of them of lower importance than an eligible sentence
\* left out.
TopSelections(sentences, eligible) ==
  LET importance(i) ==
        calculateSentenceImportance(sentences[i], i - 1, Len(sentences))
  IN {chosen \in SUBSET eligible :
        /\ Cardinality(chosen) = Min(3, Cardinality(eligible))
        /\ \A i \in chosen : \A j \in eligible \ chosen :
             importance(i) >= importance(j)}

\* The sentences at the positions chosen, trimmed, in the order of the text,
\* each followed by the full-width full stop.
JoinInOrder(sentences, chosen) ==
  join([k \in 1..Cardinality(chosen) |-> trim(sentences[KthSmallest(chosen, k)])],
       <<JpPeriod>>) \o <<JpPeriod>>

\* joined cut to its first 400 characters and an ellipsis when it is longer.
CutAtFourHundred(joined) ==
  IF Len(joined) > 400 THEN SubSeq(joined, 1, 400) \o <<".", ".", ".">>
  ELSE joined

\* C23: for a text of more than 300 characters with a sentence that passes
\* the length filter, the summary is built from at most 3 sentences, the
\* eligible ones of highest importance, in the order they have in the text.
C23_TopThreeInDocumentOrder ==
  LET sentences == Sentences(sumContent)
      eligible == EligibleAt(sentences, 11)
  IN (sumPc = "done" /\ Len(sumContent) > 300 /\ eligible # {})
     => \E chosen \in TopSelections(sentences, eligible) :
          /\ Cardinality(chosen) <= 3
          /\ Take(sumResult, 400) = Take(JoinInOrder(sentences, chosen), 400)

\* Four eligible sentences were summarised, and a sentence chosen comes
\* before a chosen sentence of higher importance.
C23_Witness ==
  LET sentences == Sentences(sumContent)
      eligible == EligibleAt(sentences, 11)
  IN /\ sumPc = "done"
     /\ Len(sumContent) > 300
     /\ Cardinality(eligible) > 3
     /\ \E chosen \in TopSelections(sentences, eligible) :
          /\ Take(sumResult, 400) = Take(JoinInOrder(sentences, chosen), 400)
          /\ \E i \in chosen : \E j \in chosen :
               /\ i < j
               /\ calculateSentenceImportance(sentences[i], i - 1, Len(sentences))
                    < calculateSentenceImportance(sentences[j], j - 1, Len(sentences))

\* C24: in the sentence-selection path exactly the sentences of fewer than
\* 10 characters are discarded: the summary is built from the sentences of
\* 10 characters or more, and the opening of the text is returned only when
\* there is none.
C24_DiscardsExactlyShorterThanTen ==
  LET sentences == Sentences(sumContent)
      eligible == EligibleAt(sentences, 10)
  IN (sumPc = "done" /\ Len(sumContent) > 300)
     => IF eligible = {}
        THEN sumResult = Take(sumContent, 200) \o <<".", ".", ".">>
        ELSE \E chosen \in TopSelections(sentences, eligible) :
               sumResult = CutAtFourHundred(JoinInOrder(sentences, chosen))

\* C25: a joined text of more than 400 characters is returned as its first
\* 400 characters and an ellipsis, a joined text of at most 400 characters
\* as it is; so the summary has at most 400 characters and the ellipsis.
C25_JoinedTextCutAtFourHundred ==
  LET sentences == Sentences(sumContent)
      eligible == EligibleAt(sentences, 11)
  IN (sumPc = "done" /\ Len(sumContent) > 300 /\ eligible # {})
     => /\ Len(sumResult) <= 400 + 3
        /\ \E chosen \in TopSelections(sentences, eligible) :
             LET joined == JoinInOrder(sentences, chosen) IN
             /\ Len(joined) > 400
                  => sumResult = SubSeq(joined, 1, 400) \o <<".", ".", ".">>
             /\ Len(joined) <= 400 => sumResult = joined

\* A joined text of 401 characters was cut.
C25_Witness ==
  LET sentences == Sentences(sumContent)
      eligible == EligibleAt(sentences, 11)
  IN /\ sumPc = "done"
     /\ Len(sumContent) > 300
     /\ eligible # {}
     /\ \E chosen \in TopSelections(sentences, eligible) :
          Len(JoinInOrder(sentences, chosen)) = 401
     /\ Len(sumResult) = 403

\* ------------------------------------------ claims on the document extractor

\* The tab trees of n tabs: a tab's parent comes before it in the document.
TabTrees(n) == {p \in [1..n -> 0..(n - 1)] : \A i \in 1..n : p[i] < i}

\* The bodies of the tabs: a paragraph; a paragraph and two list items, the
\* second nested once; a heading and a paragraph; a table of two rows; no
\* body.
BodyKinds ==
  {[hasBody |-> TRUE, content |-> <<Paragraph(<<"p", "\n">>)>>],
   [hasBody |-> TRUE,
    content |-> <<Paragraph(<<"l", "\n">>), ListItem(0, <<"i", "\n">>),
                  ListItem(1, <<"j", "\n">>)>>],
   [hasBody |-> TRUE, content |-> <<Heading(<<"h", "\n">>), Paragraph(<<"p", "\n">>)>>],
   [hasBody |-> TRUE,
    content |-> <<Table(<< <<(<<"a", " ">>), (<<"b">>)>>, <<(<<>>), (<<"c">>)>> >>)>>],
   [hasBody |-> FALSE, content |-> <<>>]}

\* SpecDoc: rankSearch extracts the text of one document of up to MaxTabs
\* tabs; the fetch of the text of the tabs of docFails fails.
InitDoc ==
  /\ \E n \in 1..MaxTabs : \E p \in TabTrees(n) : \E kind \in BodyKinds :
       /\ docTree = [title |-> <<"D">>, parent |-> p,
                     props |-> [i \in 1..n |-> TRUE],
                     titles |-> [i \in 1..n |-> <<"T">> \o DecimalDigits(i)],
                     body |-> [i \in 1..n |-> kind]]
       /\ docFails \in SUBSET (1..n)
  /\ docListing = <<>>
  /\ docResult = <<>>
  /\ docContent = <<>>
  /\ docPc = "tabs"
  /\ shBook = NoBook
  /\ shRanges = <<>>
  /\ shData = <<>>
  /\ shText = <<>>
  /\ shPc = "idle"
  /\ op = "none"
  /\ query = <<>>
  /\ maxResults = 0
  /\ RequestInit(<<>>)
  /\ SummaryIdle
  /\ AnalysisIdle

\* getDocText lists the tabs; a document without tabs gets the default tab
\* and no text is fetched.
GetDocumentTabs ==
  /\ docPc = "tabs"
  /\ docListing' = getDocumentTabs(docTree)
  /\ docResult' = IF docListing' = <<>> THEN <<DefaultTab>> ELSE <<>>
  /\ docPc' = IF docListing' = <<>> THEN "join" ELSE "texts"
  /\ UNCHANGED <<docTree, docFails, docContent, sheetVars, requestVars,
                 summaryVars, analysisVars>>

\* One round of the loop of getDocText: the text of the next listed tab is
\* fetched, or the fetch fails and the catch block gives the tab its text.
GetTabText ==
  /\ docPc = "texts"
  /\ LET k == Len(docResult) + 1 IN
       /\ docResult' = Append(docResult, TabWithText(docTree, docFails, docListing[k]))
       /\ docPc' = IF k = Len(docListing) THEN "join" ELSE "texts"
  /\ UNCHANGED <<docTree, docFails, docListing, docContent, sheetVars,
                 requestVars, summaryVars, analysisVars>>

\* rankSearch joins the texts of the tabs getDocText returned.
JoinDocContent ==
  /\ docPc = "join"
  /\ docContent' = JoinTabTexts(docResult)
  /\ docPc' = "done"
  /\ UNCHANGED <<docTree, docFails, docListing, docResult, sheetVars,
                 requestVars, summaryVars, analysisVars>>

NextDoc == GetDocumentTabs \/ GetTabText \/ JoinDocContent

SpecDoc == InitDoc /\ [][NextDoc]_vars

\* The tab and its ancestors.
RECURSIVE AncestorsOrSelf(_, _)
AncestorsOrSelf(parent, i) ==
  IF parent[i] = 0 THEN {i} ELSE {i} \cup AncestorsOrSelf(parent, parent[i])

\* The tab and its descendants.
Subtree(parent, i) == {d \in 1..Len(parent) : i \in AncestorsOrSelf(parent, d)}

\* The positions of tab i in the listing.
ListedAt(i) == {k \in 1..Len(docListing) : docListing[k].tabId = TabId(i)}

\* The position of tab i in the listing.
Pos(i) == CHOOSE k \in ListedAt(i) : TRUE

\* C26: for every tab tree the listing holds every tab exactly once, a parent
\* before its descendants, sibling tabs in document order, each subtree in
\* one piece, every tab at the level of its depth; and the content scored is
\* the texts of the tabs in that order, one after the other.
C26_TabsInPreOrder ==
  LET parent == docTree.parent
      tabs == 1..Len(parent)
  IN (docPc = "done" =>
        /\ Len(docListing) = Len(parent)
        /\ \A i \in tabs : Cardinality(ListedAt(i)) = 1
        /\ \A i \in tabs : parent[i] # 0 => Pos(parent[i]) < Pos(i)
        /\ \A i \in tabs : \A j \in tabs :
             (i < j /\ parent[i] = parent[j]) => Pos(i) < Pos(j)
        /\ \A i \in tabs :
             {Pos(d) : d \in Subtree(parent, i)}
               = Pos(i)..(Pos(i) + Cardinality(Subtree(parent, i)) - 1)
        /\ \A i \in tabs :
             docListing[Pos(i)].level = Cardinality(AncestorsOrSelf(parent, i)) - 1
        /\ Len(docResult) = Len(docListing)
        /\ \A k \in 1..Len(docResult) : docResult[k].tabId = docListing[k].tabId
        /\ \A i \in tabs \ docFails :
             docResult[Pos(i)].text = getDocumentTabText(docTree, i)
        /\ docContent = join([k \in 1..Len(docResult) |-> docResult[k].text], <<" ">>))

\* A document was extracted in which a tab with a child tab is followed by a
\* sibling: the child tab is listed before a tab of lower number, one level
\* down.
C26_Witness ==
  /\ docPc = "done"
  /\ docFails = {}
  /\ \E i \in 1..Len(docTree.parent) : \E j \in 1..Len(docTree.parent) :
       /\ i < j
       /\ Pos(j) < Pos(i)
       /\ docListing[Pos(j)].level = 1
       /\ docListing[Pos(i)].level = 0
  /\ docContent # <<>>

\* C27: in the text of a tab every list item is rendered with a bullet
\* before it, behind two spaces for each nesting level.
C27_ListItemsBulletedAndIndented ==
  docPc = "done" =>
    \A i \in (1..Len(docTree.parent)) \ docFails :
      \A e \in 1..Len(docTree.body[i].content) :
        LET element == docTree.body[i].content[e] IN
        (element.paragraph /\ element.bullet)
          => includes(docResult[Pos(i)].text,
                      Repeat(<<" ", " ">>, element.nestingLevel)
                        \o <<"U+2022", " ">> \o element.text)

\* C28: when the text of a tab cannot be obtained the extraction succeeds,
\* the other tabs have their texts, in order, and the failing tab has the
\* empty text at its position: the content scored holds no error text.
C28_FailingTabContributesEmptyText ==
  docPc = "done" =>
    /\ Len(docResult) = Len(docTree.parent)
    /\ \A i \in 1..Len(docTree.parent) :
         docResult[Pos(i)].text
           = IF i \in docFails THEN <<>> ELSE getDocumentTabText(docTree, i)
    /\ docContent = join([k \in 1..Len(docResult) |-> docResult[k].text], <<" ">>)

\* --------------------------------------- claims on the spreadsheet extractor

\* What a cell holds: nothing, a blank, a letter.
CellValues == {<<>>, <<" ">>, <<"x">>}

\* A sheet of the store: its title, gridProperties.columnCount and its cells,
\* row by row.
Sheet(title, columnCount, grid) ==
  [title |-> title, columnCount |-> columnCount, grid |-> grid]

\* The sheets whose cells vary: MaxGridRows rows of two cells, in columns A
\* and B or, behind 25 empty cells, in columns Z and AA.
GridSheets ==
  {Sheet(<<"S">>, 26 + Len(lead), [r \in 1..MaxGridRows |-> lead \o cells[r]]) :
     lead \in {<<>>, Repeat(<<(<<>>)>>, 25)},
     cells \in [1..MaxGridRows -> [1..2 -> CellValues]]}

\* The titles of the sheets of the spreadsheets of several sheets.
SheetTitles == {<<"S">>, <<"T">>, <<"2">>, <<"1", "0">>}

\* The spreadsheets of the store: one sheet whose cells vary, or up to
\* MaxSheets sheets of different titles, each empty or with one cell.
Books ==
  {[title |-> <<"B">>, sheets |-> <<sheet>>] : sheet \in GridSheets}
  \cup
  {[title |-> <<"B">>,
    sheets |-> [i \in 1..n |->
                  Sheet(titles[i], 26, <<(IF i \in filled THEN <<(<<"x">>)>> ELSE <<>>)>>)]] :
     n \in 2..MaxSheets, titles \in [1..MaxSheets -> SheetTitles],
     filled \in SUBSET (1..MaxSheets)}

\* SpecSheets: getSpreadsheetText extracts the text of one spreadsheet.
InitSheets ==
  /\ shBook \in {book \in Books :
                   \A i \in 1..Len(book.sheets) : \A j \in 1..Len(book.sheets) :
                     i # j => book.sheets[i].title # book.sheets[j].title}
  /\ shRanges = <<>>
  /\ shData = <<>>
  /\ shText = <<>>
  /\ shPc = "data"
  /\ docTree = NoTree
  /\ docFails = {}
  /\ docListing = <<>>
  /\ docResult = <<>>
  /\ docContent = <<>>
  /\ docPc = "idle"
  /\ op = "none"
  /\ query = <<>>
  /\ maxResults = 0
  /\ RequestInit(<<>>)
  /\ SummaryIdle
  /\ AnalysisIdle

\* One round of the loop of getAllSheetsData: the data range of the next
\* listed sheet is found, its values are fetched and put into result under
\* the sheet's title.
GetSheetData ==
  /\ shPc = "data"
  /\ Len(shRanges) < Len(shBook.sheets)
  /\ LET sheetTitle == shBook.sheets[Len(shRanges) + 1].title
         range == getSheetDataRange(shBook, sheetTitle)
     IN /\ shRanges' = Append(shRanges, range)
        /\ shData' = RecordSet(shData, sheetTitle, getSheetValues(shBook, range))
  /\ UNCHANGED <<shBook, shText, shPc, docVars, requestVars, summaryVars,
                 analysisVars>>

\* getAllSheetsData returns result, and getSpreadsheetText renders its
\* Object.entries.
RenderSheets ==
  /\ shPc = "data"
  /\ Len(shRanges) = Len(shBook.sheets)
  /\ shText' = getSpreadsheetText([title |-> shBook.title,
                                   sheets |-> ObjectEntries(shData)])
  /\ shPc' = "done"
  /\ UNCHANGED <<shBook, shRanges, shData, docVars, requestVars, summaryVars,
                 analysisVars>>

NextSheets == GetSheetData \/ RenderSheets

SpecSheets == InitSheets /\ [][NextSheets]_vars

\* Where the header line of the sheet titled title starts in text, 0 when
\* the text has no such line.
HeaderAt(text, title) ==
  LET header == SheetLabel \o title \o SheetLabelEnd
      at == {i \in 1..Len(text) : OccursAt(header, text, i)}
  IN IF at = {} THEN 0 ELSE CHOOSE i \in at : \A j \in at : i <= j

\* C29: the header lines of the sheets that have values come in the text
\* in the order in which the store lists the sheets.
C29_SheetsInIndexOrder ==
  shPc = "done" =>
    \A i \in 1..Len(shBook.sheets) : \A j \in 1..Len(shBook.sheets) :
      (/\ i < j
       /\ getSheetValues(shBook, shRanges[i]) # <<>>
       /\ getSheetValues(shBook, shRanges[j]) # <<>>)
      => /\ HeaderAt(shText, shBook.sheets[i].title) > 0
         /\ HeaderAt(shText, shBook.sheets[i].title)
              < HeaderAt(shText, shBook.sheets[j].title)

\* The cells of sheet, as <<row, column>>, that hold a value other than
\* those of blanks.
CellsBut(sheet, blanks) ==
  {rc \in (1..Len(sheet.grid)) \X (1..(26 + 26)) :
     /\ rc[2] <= Len(sheet.grid[rc[1]])
     /\ sheet.grid[rc[1]][rc[2]] \notin blanks}

\* range reaches from A1 to the last row and the last column of cells.
MinimalAround(range, cells) ==
  /\ \A rc \in cells : rc[1] <= range.lastRow /\ rc[2] <= ColumnNumber(range.lastColumn)
  /\ \E rc \in cells : rc[1] = range.lastRow
  /\ \E rc \in cells : rc[2] = ColumnNumber(range.lastColumn)

\* C30: for a sheet with a non-empty cell, the data range reaches from A1 to
\* the last row and the last column that hold a non-empty cell: every
\* non-empty cell lies inside it, and its last row and its last column each
\* hold one.  A cell of white space only may be read as empty or as
\* non-empty: the range is to be minimal in one of the two readings.
C30_DataRangeIsMinimalRectangle ==
  \A k \in 1..Len(shRanges) :
    CellsBut(shBook.sheets[k], {<<>>, <<" ">>}) # {}
      => \/ MinimalAround(shRanges[k], CellsBut(shBook.sheets[k], {<<>>}))
         \/ MinimalAround(shRanges[k], CellsBut(shBook.sheets[k], {<<>>, <<" ">>}))

=========================================================================
